---- MODULE Spec2Model ----
(***************************************************************************)
(* A model of the execution and conformance core of the DCR graph engine:  *)
(* the execution kernel (execute, isEnabled, getEnabled, isAccepting),     *)
(* trace replay and the conformance quantifier (conformance.ts) and the    *)
(* trace aligner (the second half of utility.ts).                          *)
(*                                                                         *)
(* Events are the integers 1..NEvents; a JavaScript Set iterates in        *)
(* insertion order, and the model takes every set to have been built by    *)
(* inserting events in ascending order, so loops over sets run in          *)
(* ascending order.  Each event has a name (a string, modelled as a        *)
(* sequence of character codes) that stateToStr prints.                    *)
(***************************************************************************)
EXTENDS Integers, Sequences, FiniteSets, TLC

\* ------------------------------------------------------------------ bounds
NEvents == 2
MaxEdges == 2
MaxTraceLen == 2

VARIABLES graph, marking, call

vars == <<graph, marking, call>>

\* ------------------------------------------------------------- data model
Events == 1..NEvents

RelKinds == {"conditionsFor", "milestonesFor", "responseTo", "excludesTo", "includesTo"}

\* An edge <<kind, k, v>> says v \in graph[kind][k].
Edges == RelKinds \X Events \X Events

RECURSIVE SubsetsUpTo(_, _)
SubsetsUpTo(S, k) ==
    IF k = 0 THEN {{}}
    ELSE LET smaller == SubsetsUpTo(S, k - 1)
         IN smaller \cup {T \cup {x} : T \in smaller, x \in S}

EventMapOf(E, kind) == [k \in Events |-> {v \in Events : <<kind, k, v>> \in E}]

Labels == {"a", "b"}
UnknownLabel == "x"
Roles == {"r1", "r2"}

\* Event 1 is labelled "a"; event 2 (and up) either shares it or is "b".
LabelMaps == {[e \in Events |-> IF e = 1 THEN "a" ELSE l] : l \in Labels}
RoleMaps == {[e \in Events |-> IF e = 1 THEN "r1" ELSE r] : r \in Roles}

GraphOf(E, lm, rm) ==
    [conditionsFor |-> EventMapOf(E, "conditionsFor"),
     milestonesFor |-> EventMapOf(E, "milestonesFor"),
     responseTo    |-> EventMapOf(E, "responseTo"),
     excludesTo    |-> EventMapOf(E, "excludesTo"),
     includesTo    |-> EventMapOf(E, "includesTo"),
     labelMap      |-> lm,
     roleMap       |-> rm]

Markings == [executed : SUBSET Events, included : SUBSET Events, pending : SUBSET Events]

\* ------------------------------------------------------- derived structure
\* graphToGraphPP: conditions is the union of all conditionsFor sets.
conditions(g) == UNION {g.conditionsFor[k] : k \in Events}

\* flipEventMap: the reverse relation.  Every key of em is a key of the
\* result, and so is every event that em refers to (line 90 adds the key
\* when it is missing).
flipEventMap(em) ==
    LET keys == DOMAIN em
    IN [e2 \in keys \cup UNION {em[k] : k \in keys} |-> {e1 \in keys : e2 \in em[e1]}]

\* --------------------------------------------------------- execution kernel
\* execute: the marking after the statements of execute, in their order.
executeNoPendingDelete(event, g, m) ==
    LET ex == IF event \in conditions(g) THEN m.executed \cup {event} ELSE m.executed
        p2 == m.pending \cup g.responseTo[event]
        i1 == m.included \ g.excludesTo[event]
        i2 == i1 \cup g.includesTo[event]
    IN [executed |-> ex, included |-> i2, pending |-> p2]

executeNoResponse(event, g, m) ==
    LET ex == IF event \in conditions(g) THEN m.executed \cup {event} ELSE m.executed
        p1 == m.pending \ {event}
        i1 == m.included \ g.excludesTo[event]
        i2 == i1 \cup g.includesTo[event]
    IN [executed |-> ex, included |-> i2, pending |-> p1]

executeExcludeLast(event, g, m) ==
    LET ex == IF event \in conditions(g) THEN m.executed \cup {event} ELSE m.executed
        p1 == m.pending \ {event}
        p2 == p1 \cup g.responseTo[event]
        i1 == m.included \cup g.includesTo[event]
        i2 == i1 \ g.excludesTo[event]
    IN [executed |-> ex, included |-> i2, pending |-> p2]

executeAlwaysExecuted(event, g, m) ==
    LET ex == m.executed \cup {event}
        p1 == m.pending \ {event}
        p2 == p1 \cup g.responseTo[event]
        i1 == m.included \ g.excludesTo[event]
        i2 == i1 \cup g.includesTo[event]
    IN [executed |-> ex, included |-> i2, pending |-> p2]

execute(event, g, m) ==
    LET ex == IF event \in conditions(g) THEN m.executed \cup {event} ELSE m.executed
        p1 == m.pending \ {event}
        p2 == p1 \cup g.responseTo[event]
        i1 == m.included \ g.excludesTo[event]
        i2 == i1 \cup g.includesTo[event]
    IN [executed |-> ex, included |-> i2, pending |-> p2]

\* execute on an event that is no key of the relation maps: the first two
\* statements run, then graph.responseTo[event] is undefined and iterating it
\* throws a TypeError, which leaves the marking as those statements made it.
executeThrownAlwaysExecuted(event, g, m) ==
    [threw |-> TRUE,
     marking |-> [m EXCEPT !.executed = @ \cup {event}, !.pending = @ \ {event}]]

executeThrown(event, g, m) ==
    LET ex == IF event \in conditions(g) THEN m.executed \cup {event} ELSE m.executed
        p1 == m.pending \ {event}
    IN [threw |-> TRUE, marking |-> [m EXCEPT !.executed = ex, !.pending = p1]]

isAccepting(m) == Cardinality(m.pending \cap m.included) = 0

isEnabledNoMilestone(event, g, m) ==
    IF event \notin m.included THEN FALSE
    ELSE IF \E cEvent \in g.conditionsFor[event] :
               cEvent \in m.included /\ cEvent \notin m.executed THEN FALSE
    ELSE TRUE

isEnabled(event, g, m) ==
    IF event \notin m.included THEN FALSE
    ELSE IF \E cEvent \in g.conditionsFor[event] :
               cEvent \in m.included /\ cEvent \notin m.executed THEN FALSE
    ELSE IF \E mEvent \in g.milestonesFor[event] :
               mEvent \in m.included /\ mEvent \in m.pending THEN FALSE
    ELSE TRUE

\* getEnabled: start from a copy of events and delete, event by event.
RECURSIVE getEnabledLoop(_, _, _, _)
getEnabledLoop(i, retSet, g, m) ==
    IF i > NEvents THEN retSet
    ELSE LET d1 == IF i \notin m.included THEN {i} ELSE {}
             d2 == IF \E o \in g.conditionsFor[i] : o \in m.included /\ o \notin m.executed
                   THEN {i} ELSE {}
             d3 == IF \E o \in g.milestonesFor[i] : o \in m.included /\ o \in m.pending
                   THEN {i} ELSE {}
         IN getEnabledLoop(i + 1, retSet \ (d1 \cup d2 \cup d3), g, m)

getEnabledNoIncludedCheck(g, m) ==
    {e \in Events :
        /\ ~ \E o \in g.conditionsFor[e] : o \in m.included /\ o \notin m.executed
        /\ ~ \E o \in g.milestonesFor[e] : o \in m.included /\ o \in m.pending}

getEnabled(g, m) == getEnabledLoop(1, Events, g, m)

\* ----------------------------------------------------------- number model
\* JavaScript's Infinity: larger than every cost or count a run can produce,
\* and absorbing under addition.
Infinity == 1000000

Plus(a, b) == IF a >= Infinity \/ b >= Infinity THEN Infinity ELSE a + b

\* --------------------------------------------------- labels of a graph
\* graph.labels: the labels that some event carries.
labels(g) == {g.labelMap[e] : e \in Events}

\* A set of events as the sequence its iteration yields (ascending).
RECURSIVE SetToSeq(_)
SetToSeq(S) ==
    IF S = {} THEN <<>>
    ELSE LET lo == CHOOSE x \in S : \A y \in S : x <= y
         IN <<lo>> \o SetToSeq(S \ {lo})

\* graph.labelMapInv[l], for a label l of the graph.
labelMapInv(g, l) == SetToSeq({e \in Events : g.labelMap[e] = l})

\* reverseRelation: the relation with sources and targets swapped.
reverseRelation(relation) == [j \in Events |-> {e \in Events : j \in relation[e]}]

\* ------------------------------------- execution engine used by conformance
\* executeS, isEnabledS and isAcceptingS (executionEngine) after section 4.1
\* of the specification; graphs here carry no sub-process, so the group of
\* every event is the graph itself.
executeS(event, g, m) ==
    LET ex == IF event \in conditions(g) THEN m.executed \cup {event} ELSE m.executed
        p1 == m.pending \ {event}
        p2 == p1 \cup g.responseTo[event]
        i1 == m.included \ g.excludesTo[event]
        i2 == i1 \cup g.includesTo[event]
    IN [executed |-> ex, included |-> i2, pending |-> p2]

isEnabledS(event, g, m) ==
    /\ event \in m.included
    /\ \A c \in g.conditionsFor[event] : c \notin m.included \/ c \in m.executed
    /\ \A ms \in g.milestonesFor[event] : ms \notin m.included \/ ms \notin m.pending

isAcceptingS(m) == m.pending \cap m.included = {}

\* ------------------------------------------------------------ replayTraceS
\* The result carries graph.marking as the call leaves it.
RECURSIVE replayTraceS(_, _, _)
RECURSIVE replayLoop(_, _, _, _, _, _, _)

replayLoopNoRoleCheck(g, evs, i, head, tail, initMarking, cur) ==
    IF i > Len(evs) THEN cur
    ELSE LET event == evs[i]
         IN IF isEnabledS(event, g, cur.marking)
            THEN LET m1 == executeS(event, g, cur.marking)
                     rec == IF cur.retval THEN [retval |-> TRUE, marking |-> m1]
                            ELSE replayTraceS(g, m1, tail)
                 IN replayLoop(g, evs, i + 1, head, tail, initMarking,
                               [retval |-> cur.retval \/ rec.retval, marking |-> initMarking])
            ELSE replayLoop(g, evs, i + 1, head, tail, initMarking, cur)

replayLoop(g, evs, i, head, tail, initMarking, cur) ==
    IF i > Len(evs) THEN cur
    ELSE LET event == evs[i]
         IN IF head.role # g.roleMap[event]
            THEN replayLoop(g, evs, i + 1, head, tail, initMarking, cur)
            ELSE IF isEnabledS(event, g, cur.marking)
            THEN LET m1 == executeS(event, g, cur.marking)
                     \* retval || replayTraceS(...) does not recurse once retval is true
                     rec == IF cur.retval THEN [retval |-> TRUE, marking |-> m1]
                            ELSE replayTraceS(g, m1, tail)
                 IN replayLoop(g, evs, i + 1, head, tail, initMarking,
                               [retval |-> cur.retval \/ rec.retval, marking |-> initMarking])
            ELSE replayLoop(g, evs, i + 1, head, tail, initMarking, cur)

replayTraceS(g, m, trace) ==
    IF Len(trace) = 0 THEN [retval |-> isAcceptingS(m), marking |-> m]
    ELSE LET head == Head(trace)
             tail == Tail(trace)
         IN IF head.activity \notin labels(g)
            THEN replayTraceS(g, m, tail)
            ELSE replayLoop(g, labelMapInv(g, head.activity), 1, head, tail, m,
                            [retval |-> FALSE, marking |-> m])

\* ------------------------------------------------------ quantifyViolations
\* A FuzzyRelation is a function from (some) events to functions from (some)
\* events to numbers; the object {} is the function with the empty domain.
EmptyObject == <<>>

emptyFuzzyRel == [event \in Events |-> [event2 \in Events |-> 0]]

emptyEventMap == [event \in Events |-> {}]

EmptyRelationViolations ==
    [conditionsFor |-> EmptyObject, responseTo |-> EmptyObject,
     excludesTo |-> EmptyObject, milestonesFor |-> EmptyObject]

\* the reduce of mergeFuzRels with value in place of (acc[key] || 0) + value
mergeRowOverwrite(acc, row2) ==
    [key \in (DOMAIN acc) \cup (DOMAIN row2) |->
        IF key \in DOMAIN row2 THEN row2[key] ELSE acc[key]]

mergeRow(acc, row2) ==
    [key \in (DOMAIN acc) \cup (DOMAIN row2) |->
        IF key \in DOMAIN row2
        THEN (IF key \in DOMAIN acc THEN acc[key] ELSE 0) + row2[key]
        ELSE acc[key]]

mergeFuzRels(viols1, viols2) ==
    [e1 \in (DOMAIN viols1) \cup (DOMAIN viols2) |->
        IF e1 \in DOMAIN viols2
        THEN (IF e1 \in DOMAIN viols1 THEN mergeRow(viols1[e1], viols2[e1]) ELSE viols2[e1])
        ELSE viols1[e1]]

mergeViolations(viols1, viols2) ==
    [conditionsFor |-> mergeFuzRels(viols1.conditionsFor, viols2.conditionsFor),
     responseTo    |-> mergeFuzRels(viols1.responseTo, viols2.responseTo),
     excludesTo    |-> mergeFuzRels(viols1.excludesTo, viols2.excludesTo),
     milestonesFor |-> mergeFuzRels(viols1.milestonesFor, viols2.milestonesFor)]

\* computeActivations without the test event === executedEvent
computeActivationsEveryEvent(executedEvent, rel) ==
    [event \in Events |-> [event2 \in Events |->
        IF event2 \in rel[event] THEN 1 ELSE 0]]

computeActivations(executedEvent, rel) ==
    [event \in Events |-> [event2 \in Events |->
        IF event = executedEvent /\ event2 \in rel[event] THEN 1 ELSE 0]]

\* The events the three violation loops of one step visit.
conditionViolators(event, g, m) ==
    {o \in g.conditionsFor[event] \ m.executed : o \in m.included}

\* the milestone loop without the test of line 184
milestoneViolatorsNoIncludedTest(event, g, m) ==
    g.milestonesFor[event] \cap m.pending

milestoneViolators(event, g, m) ==
    {o \in g.milestonesFor[event] \cap m.pending : o \in m.included}

excludeViolators(event, g, m, localExSinceIn) ==
    IF event \notin m.included
    THEN localExSinceIn[event] \cap reverseRelation(g.excludesTo)[event]
    ELSE {}

\* quantifyEnd without the intersection with exSinceEx[event]
quantifyEndNoSinceTest(g, m, exSinceEx) ==
    LET responseFor == reverseRelation(g.responseTo)
        open == m.pending \cap m.included
        responseTo == [o \in Events |-> [e \in Events |->
                          IF e \in open /\ o \in responseFor[e]
                          THEN 1 ELSE 0]]
        total == Cardinality({pr \in Events \X Events :
                          pr[2] \in open /\ pr[1] \in responseFor[pr[2]]})
    IN [threw |-> FALSE,
        totalViolations |-> total,
        violations |-> [conditionsFor |-> emptyFuzzyRel, responseTo |-> responseTo,
                        excludesTo |-> emptyFuzzyRel, milestonesFor |-> emptyFuzzyRel],
        activations |-> [conditionsFor |-> emptyFuzzyRel, responseTo |-> emptyFuzzyRel,
                         excludesTo |-> emptyFuzzyRel, milestonesFor |-> emptyFuzzyRel],
        marking |-> m]

\* End of trace: the response violations of the pending included events.
quantifyEnd(g, m, exSinceEx) ==
    LET responseFor == reverseRelation(g.responseTo)
        open == m.pending \cap m.included
        responseTo == [o \in Events |-> [e \in Events |->
                          IF e \in open /\ o \in responseFor[e] \cap exSinceEx[e]
                          THEN 1 ELSE 0]]
        total == Cardinality({pr \in Events \X Events :
                          pr[2] \in open /\ pr[1] \in responseFor[pr[2]] \cap exSinceEx[pr[2]]})
    IN [threw |-> FALSE,
        totalViolations |-> total,
        violations |-> [conditionsFor |-> emptyFuzzyRel, responseTo |-> responseTo,
                        excludesTo |-> emptyFuzzyRel, milestonesFor |-> emptyFuzzyRel],
        activations |-> [conditionsFor |-> emptyFuzzyRel, responseTo |-> emptyFuzzyRel,
                         excludesTo |-> emptyFuzzyRel, milestonesFor |-> emptyFuzzyRel],
        marking |-> m]

\* A TypeError leaving the call: graph.marking stays as it was at the throw.
Thrown(m) == [threw |-> TRUE, marking |-> m]

RECURSIVE quantifyRec(_, _, _, _, _)
RECURSIVE quantifyLoop(_, _, _, _, _, _, _, _, _)

\* One candidate of the loop of quantifyRec: score, execute, update, recurse.
quantifyCandidate(g, event, tail, exSinceIn, exSinceEx, m) ==
    LET cv == conditionViolators(event, g, m)
        mv == milestoneViolators(event, g, m)
        xv == excludeViolators(event, g, m, exSinceIn)
        localViolationCount == Cardinality(cv) + Cardinality(mv) + Cardinality(xv)
        localViolations ==
            [conditionsFor |-> [e \in Events |-> [o \in Events |->
                                   IF e = event /\ o \in cv THEN 1 ELSE 0]],
             responseTo    |-> emptyFuzzyRel,
             excludesTo    |-> [o \in Events |-> [e \in Events |->
                                   IF e = event /\ o \in xv THEN 1 ELSE 0]],
             milestonesFor |-> [e \in Events |-> [o \in Events |->
                                   IF e = event /\ o \in mv THEN 1 ELSE 0]]]
        localActivations ==
            [conditionsFor |-> computeActivations(event, g.conditionsFor),
             responseTo    |-> computeActivations(event, g.responseTo),
             excludesTo    |-> computeActivations(event, g.excludesTo),
             milestonesFor |-> computeActivations(event, g.milestonesFor)]
        m1 == executeS(event, g, m)
        in1 == [o \in Events |-> IF o \in g.includesTo[event] THEN {} ELSE exSinceIn[o]]
        localExSinceIn == [o \in Events |-> in1[o] \cup {event}]
        ex1 == [o \in Events |-> exSinceEx[o] \cup {event}]
        localExSinceEx == [ex1 EXCEPT ![event] = {event}]
        rec == quantifyRec(g, m1, tail, localExSinceIn, localExSinceEx)
    IN [count |-> localViolationCount, violations |-> localViolations,
        activations |-> localActivations, rec |-> rec]

\* the loop of quantifyRec without line 149: candidates of any role
quantifyLoopNoRoleCheck(g, evs, i, head, tail, exSinceIn, exSinceEx, initMarking, cur) ==
    IF i > Len(evs)
    THEN [threw |-> FALSE, totalViolations |-> cur.least, violations |-> cur.bestV,
          activations |-> cur.bestA, marking |-> initMarking]
    ELSE LET c == quantifyCandidate(g, evs[i], tail, exSinceIn, exSinceEx, initMarking)
         IN IF c.rec.threw THEN Thrown(c.rec.marking)
            ELSE IF Plus(c.count, c.rec.totalViolations) < cur.least
            THEN quantifyLoop(g, evs, i + 1, head, tail, exSinceIn, exSinceEx, initMarking,
                    [least |-> Plus(c.count, c.rec.totalViolations),
                     bestV |-> mergeViolations(c.violations, c.rec.violations),
                     bestA |-> mergeViolations(c.activations, c.rec.activations)])
            ELSE quantifyLoop(g, evs, i + 1, head, tail, exSinceIn, exSinceEx, initMarking, cur)

quantifyLoop(g, evs, i, head, tail, exSinceIn, exSinceEx, initMarking, cur) ==
    IF i > Len(evs)
    THEN [threw |-> FALSE, totalViolations |-> cur.least, violations |-> cur.bestV,
          activations |-> cur.bestA, marking |-> initMarking]
    ELSE LET event == evs[i]
         IN IF head.role # g.roleMap[event]
            THEN quantifyLoop(g, evs, i + 1, head, tail, exSinceIn, exSinceEx, initMarking, cur)
            ELSE LET c == quantifyCandidate(g, event, tail, exSinceIn, exSinceEx, initMarking)
                 IN IF c.rec.threw THEN Thrown(c.rec.marking)
                    ELSE IF Plus(c.count, c.rec.totalViolations) < cur.least
                    THEN quantifyLoop(g, evs, i + 1, head, tail, exSinceIn, exSinceEx, initMarking,
                            [least |-> Plus(c.count, c.rec.totalViolations),
                             bestV |-> mergeViolations(c.violations, c.rec.violations),
                             bestA |-> mergeViolations(c.activations, c.rec.activations)])
                    ELSE quantifyLoop(g, evs, i + 1, head, tail, exSinceIn, exSinceEx, initMarking, cur)

quantifyRec(g, m, trace, exSinceIn, exSinceEx) ==
    IF Len(trace) = 0 THEN quantifyEnd(g, m, exSinceEx)
    ELSE LET head == Head(trace)
             tail == Tail(trace)
         IN \* graph.labelMapInv[head.activity] is undefined for an activity that
            \* is no label of the graph, and iterating undefined throws
            IF head.activity \notin labels(g) THEN Thrown(m)
            ELSE quantifyLoop(g, labelMapInv(g, head.activity), 1, head, tail,
                              exSinceIn, exSinceEx, m,
                              [least |-> Infinity, bestV |-> EmptyRelationViolations,
                               bestA |-> EmptyRelationViolations])

quantifyViolations(g, m, trace) == quantifyRec(g, m, trace, emptyEventMap, emptyEventMap)

\* ------------------------------------------------------------- stateToStr
\* Strings are sequences of character codes.
CommaCode == 44
SemicolonCode == 59
LetterBase == 64

\* The identifier of event e: "A", "B", ...
EventName(e) == <<LetterBase + e>>

\* a < b as Array.prototype.sort() orders strings (by code unit).
LexLess(a, b) ==
    \/ /\ Len(a) < Len(b)
       /\ \A i \in 1..Len(a) : a[i] = b[i]
    \/ \E i \in 1..Len(a) :
          /\ i <= Len(b)
          /\ a[i] < b[i]
          /\ \A j \in 1..(i - 1) : a[j] = b[j]

RECURSIVE SortStrings(_)
SortStrings(S) ==
    IF S = {} THEN <<>>
    ELSE LET lo == CHOOSE x \in S : \A y \in S \ {x} : LexLess(x, y)
         IN <<lo>> \o SortStrings(S \ {lo})

\* Array.prototype.join(): the strings separated by ",".
RECURSIVE Join(_)
Join(strs) ==
    IF Len(strs) = 0 THEN <<>>
    ELSE IF Len(strs) = 1 THEN strs[1]
    ELSE strs[1] \o <<CommaCode>> \o Join(Tail(strs))

SetStr(S) == Join(SortStrings({EventName(e) : e \in S})) \o <<SemicolonCode>>

\* SetStr tabulated once for every set of events.
SetStrOf == [S \in SUBSET Events |-> SetStr(S)]

\* The properties of a marking made by copyMarking are visited in the order
\* executed, included, pending.
stateToStr(m) == SetStrOf[m.executed] \o SetStrOf[m.included] \o SetStrOf[m.pending]

\* --------------------------------------------------- reachability oracle
\* canBeExcludedRecur, canBeIncludedRecur and canBeExecutedRecur of
\* canBeExecuted (exempt = origEvent) and of canBeExecutedOrExcluded
\* (exempt = NoEvent: its context test has no exemption).
NoEvent == 0

RECURSIVE canBeExecutedRecur(_, _, _, _, _, _)

\* canBeExcludedRecur with an empty loop: no event excludes another
canBeExcludedNever(event, cycleSets, g, m, context, exempt) == FALSE

canBeExcludedRecur(event, cycleSets, g, m, context, exempt) ==
    \E exclForEvent \in flipEventMap(g.excludesTo)[event] :
        /\ exclForEvent \notin cycleSets.exec
        /\ canBeExecutedRecur(exclForEvent,
              [cycleSets EXCEPT !.exec = @ \cup {exclForEvent}], g, m, context, exempt)

\* canBeIncludedRecur with an empty loop: no event includes another
canBeIncludedNever(event, cycleSets, g, m, context, exempt) == FALSE

canBeIncludedRecur(event, cycleSets, g, m, context, exempt) ==
    \E inclForEvent \in flipEventMap(g.includesTo)[event] :
        /\ inclForEvent \notin cycleSets.exec
        /\ canBeExecutedRecur(inclForEvent,
              [cycleSets EXCEPT !.exec = @ \cup {inclForEvent}], g, m, context, exempt)

\* a blocking event can be executed, or else excluded
CanBeExecOrExcl(b, cycleSets, g, m, context, exempt) ==
    \/ /\ b \notin cycleSets.exec
       /\ canBeExecutedRecur(b, [cycleSets EXCEPT !.exec = @ \cup {b}], g, m, context, exempt)
    \/ /\ b \notin cycleSets.excl
       /\ canBeExcludedRecur(b, [cycleSets EXCEPT !.excl = @ \cup {b}], g, m, context, exempt)

canBeExecutedRecur(event, cycleSets, g, m, context, exempt) ==
    IF event # exempt /\ g.labelMap[event] \in context THEN FALSE
    ELSE IF isEnabled(event, g, m) THEN TRUE
    ELSE IF \E condForEvent \in g.conditionsFor[event] :
               /\ condForEvent \notin m.executed /\ condForEvent \in m.included
               /\ ~ CanBeExecOrExcl(condForEvent, cycleSets, g, m, context, exempt)
         THEN FALSE
    ELSE IF \E mistForEvent \in g.milestonesFor[event] :
               /\ mistForEvent \in m.pending /\ mistForEvent \in m.included
               /\ ~ CanBeExecOrExcl(mistForEvent, cycleSets, g, m, context, exempt)
         THEN FALSE
    ELSE IF event \notin m.included
         THEN /\ event \notin cycleSets.incl
              /\ canBeIncludedRecur(event, [cycleSets EXCEPT !.incl = @ \cup {event}],
                                    g, m, context, exempt)
    ELSE TRUE

canBeExecuted(origEvent, g, m, context) ==
    canBeExecutedRecur(origEvent, [excl |-> {}, exec |-> {origEvent}, incl |-> {}],
                       g, m, context, origEvent)

canBeExecutedOrExcluded(peEvent, g, m, context) ==
    \/ canBeExecutedRecur(peEvent, [excl |-> {}, exec |-> {peEvent}, incl |-> {}],
                          g, m, context, NoEvent)
    \/ canBeExcludedRecur(peEvent, [excl |-> {peEvent}, exec |-> {}, incl |-> {}],
                          g, m, context, NoEvent)

\* ----------------------------------------------------------------- align
\* maxCost before its first assignment.
Undefined == -1

\* The cost function: one cost for each kind of move.
alignCost(costFun, kind, x) == costFun[kind]

\* newGraphEnv without the statement graph.marking = oldMarking
newGraphEnvNoRestore(oldMarking, r) == r

\* newGraphEnv: fun ran on a copy of the marking and left result r; on a
\* normal return graph.marking is set back to oldMarking, and a throw of fun
\* leaves newGraphEnv before that statement.
newGraphEnv(oldMarking, r) ==
    IF r.threw THEN r ELSE [r EXCEPT !.marking = oldMarking]

NoAlignment(st, m) ==
    [cost |-> Infinity, trace |-> <<>>, st |-> st, threw |-> FALSE, marking |-> m]

\* alignState[traceLen][stateStr], undefined when absent
Visited(st, traceLen, stateStr) ==
    IF stateStr \in DOMAIN st.alignState[traceLen]
    THEN st.alignState[traceLen][stateStr] ELSE Undefined

\* env: the arguments of align that the search reads
\*      [costFun, toDepth, pruning, context]
\* st:  the variables the calls share: [maxCost, alignState], with the
\*      history of the writes to alignState [log, search]
\* acc: the state of a loop: [best |-> [cost, trace], st, threw, marking]
RECURSIVE alignTraceLabel(_, _, _, _, _, _, _)
RECURSIVE consumeLoop(_, _, _, _, _, _, _, _, _)
RECURSIVE modelSkipLoop(_, _, _, _, _, _, _, _, _)

\* The loops run on graph.marking as the calls before them left it
\* (acc.marking), which newGraphEnv sets back after every call it wraps.
consumeLoop(evs, i, trace, g, m, curCost, curDepth, env, acc) ==
    IF i > Len(evs) \/ acc.threw THEN acc
    ELSE LET event == evs[i]
             cur == acc.marking
         IN IF isEnabled(event, g, cur)
            THEN LET alignment ==
                         newGraphEnv(cur, alignTraceLabel(Tail(trace), g, execute(event, g, cur),
                             curCost + alignCost(env.costFun, "consume", event),
                             curDepth + 1, acc.st, env))
                 IN IF alignment.threw
                    THEN [acc EXCEPT !.threw = TRUE, !.st = alignment.st,
                                     !.marking = alignment.marking]
                    ELSE IF alignment.cost < acc.best.cost
                    THEN consumeLoop(evs, i + 1, trace, g, m, curCost, curDepth, env,
                            [acc EXCEPT !.st = [alignment.st EXCEPT !.maxCost = alignment.cost],
                                        !.best = [cost |-> alignment.cost,
                                                  trace |-> <<event>> \o alignment.trace],
                                        !.marking = alignment.marking])
                    ELSE consumeLoop(evs, i + 1, trace, g, m, curCost, curDepth, env,
                            [acc EXCEPT !.st = alignment.st, !.marking = alignment.marking])
            ELSE consumeLoop(evs, i + 1, trace, g, m, curCost, curDepth, env, acc)

\* the model-skip loop without alignment.trace.unshift(event)
modelSkipLoopNoUnshift(evs, i, trace, g, m, curCost, curDepth, env, acc) ==
    IF i > Len(evs) \/ acc.threw THEN acc
    ELSE LET event == evs[i]
             cur == acc.marking
             alignment ==
                 newGraphEnv(cur, alignTraceLabel(trace, g, execute(event, g, cur),
                     curCost + alignCost(env.costFun, "model-skip", event),
                     curDepth + 1, acc.st, env))
         IN IF alignment.threw
            THEN [acc EXCEPT !.threw = TRUE, !.st = alignment.st,
                             !.marking = alignment.marking]
            ELSE IF alignment.cost < acc.best.cost
            THEN modelSkipLoop(evs, i + 1, trace, g, m, curCost, curDepth, env,
                    [acc EXCEPT !.st = [alignment.st EXCEPT !.maxCost = alignment.cost],
                                !.best = [cost |-> alignment.cost,
                                          trace |-> alignment.trace],
                                !.marking = alignment.marking])
            ELSE modelSkipLoop(evs, i + 1, trace, g, m, curCost, curDepth, env,
                    [acc EXCEPT !.st = alignment.st, !.marking = alignment.marking])

modelSkipLoop(evs, i, trace, g, m, curCost, curDepth, env, acc) ==
    IF i > Len(evs) \/ acc.threw THEN acc
    ELSE LET event == evs[i]
             cur == acc.marking
             alignment ==
                 newGraphEnv(cur, alignTraceLabel(trace, g, execute(event, g, cur),
                     curCost + alignCost(env.costFun, "model-skip", event),
                     curDepth + 1, acc.st, env))
         IN IF alignment.threw
            THEN [acc EXCEPT !.threw = TRUE, !.st = alignment.st,
                             !.marking = alignment.marking]
            ELSE IF alignment.cost < acc.best.cost
            THEN modelSkipLoop(evs, i + 1, trace, g, m, curCost, curDepth, env,
                    [acc EXCEPT !.st = [alignment.st EXCEPT !.maxCost = alignment.cost],
                                !.best = [cost |-> alignment.cost,
                                          trace |-> <<event>> \o alignment.trace],
                                !.marking = alignment.marking])
            ELSE modelSkipLoop(evs, i + 1, trace, g, m, curCost, curDepth, env,
                    [acc EXCEPT !.st = alignment.st, !.marking = alignment.marking])

\* The consume block: iterating labelMapInv[trace[0]] throws when trace[0] is
\* no label of the graph.
consumeBlock(trace, g, m, curCost, curDepth, env, acc) ==
    IF Len(trace) > 0
    THEN IF trace[1] \notin labels(g)
         THEN [acc EXCEPT !.threw = TRUE]
         ELSE consumeLoop(labelMapInv(g, trace[1]), 1, trace, g, m, curCost, curDepth, env, acc)
    ELSE acc

traceSkipBlock(trace, g, m, curCost, curDepth, env, acc) ==
    IF Len(trace) > 0 /\ ~ acc.threw
    THEN LET alignment ==
                 alignTraceLabel(Tail(trace), g, acc.marking,
                     curCost + alignCost(env.costFun, "trace-skip", trace[1]),
                     curDepth + 1, acc.st, env)
         IN IF alignment.threw
            THEN [acc EXCEPT !.threw = TRUE, !.st = alignment.st,
                             !.marking = alignment.marking]
            ELSE IF alignment.cost < acc.best.cost
            THEN [acc EXCEPT !.st = [alignment.st EXCEPT !.maxCost = alignment.cost],
                             !.best = [cost |-> alignment.cost, trace |-> alignment.trace],
                             !.marking = alignment.marking]
            ELSE [acc EXCEPT !.st = alignment.st, !.marking = alignment.marking]
    ELSE acc

\* the reachability test without the condition maxCost === Infinity
PrunedNoMaxCostTest(trace, g, m, env, st) ==
    /\ env.pruning
    /\ IF Len(trace) > 0
       THEN ~ \E event \in {e \in Events : g.labelMap[e] = trace[1]} :
                 canBeExecuted(event, g, m, env.context)
       ELSE ~ \A pEvent \in m.pending \cap m.included :
                 canBeExecutedOrExcluded(pEvent, g, m, env.context)

\* The reachability test: TRUE when the branch is to be abandoned.
Pruned(trace, g, m, env, st) ==
    /\ env.pruning
    /\ st.maxCost = Infinity
    /\ IF Len(trace) > 0
       THEN ~ \E event \in {e \in Events : g.labelMap[e] = trace[1]} :
                 canBeExecuted(event, g, m, env.context)
       ELSE ~ \A pEvent \in m.pending \cap m.included :
                 canBeExecutedOrExcluded(pEvent, g, m, env.context)

alignSearch(trace, g, m, curCost, curDepth, st, env) ==
    LET acc0 == [best |-> [cost |-> Infinity, trace |-> <<>>], st |-> st,
                 threw |-> FALSE, marking |-> m]
        acc1 == consumeBlock(trace, g, m, curCost, curDepth, env, acc0)
        acc2 == traceSkipBlock(trace, g, m, curCost, curDepth, env, acc1)
    IN IF acc2.threw
       THEN [cost |-> Infinity, trace |-> <<>>, st |-> acc2.st, threw |-> TRUE,
             marking |-> acc2.marking]
       ELSE IF Pruned(trace, g, acc2.marking, env, acc2.st)
       THEN NoAlignment(acc2.st, acc2.marking)
       ELSE LET acc3 == modelSkipLoop(SetToSeq(getEnabled(g, acc2.marking)), 1, trace, g, m,
                                      curCost, curDepth, env, acc2)
            IN [cost |-> acc3.best.cost, trace |-> acc3.best.trace, st |-> acc3.st,
                threw |-> acc3.threw, marking |-> acc3.marking]

\* the assignment alignState[traceLen][stateStr] = curCost; st.log keeps the
\* assignments made so far: the marking, the cost written, the value found
\* (visitedCost) and the search that made it (st.search: 0 for the alignment
\* of the empty trace that sets maxCost, 1 for the search of the trace)
WriteVisited(st, traceLen, stateStr, m, curCost, visitedCost) ==
    [st EXCEPT !.alignState[traceLen] = (stateStr :> curCost) @@ @,
               !.log = Append(@, [search |-> st.search, n |-> traceLen, key |-> stateStr,
                                  m |-> m, cost |-> curCost, prev |-> visitedCost])]

\* alignTraceLabel in which the first call of a search does not write
\* alignState
alignTraceLabelNoWriteAtRoot(trace, g, m, curCost, curDepth, st, env) ==
    IF st.maxCost # Undefined /\ curCost >= st.maxCost THEN NoAlignment(st, m)
    ELSE IF curDepth >= env.toDepth THEN NoAlignment(st, m)
    ELSE LET stateStr == stateToStr(m)
             traceLen == Len(trace)
             visitedCost == Visited(st, traceLen, stateStr)
         IN IF visitedCost # Undefined /\ visitedCost <= curCost THEN NoAlignment(st, m)
            ELSE LET st1 == IF curDepth = 0
                            THEN [WriteVisited(st, traceLen, stateStr, m, curCost, visitedCost)
                                     EXCEPT !.alignState = st.alignState]
                            ELSE WriteVisited(st, traceLen, stateStr, m, curCost, visitedCost)
                 IN IF isAccepting(m) /\ traceLen = 0
                    THEN [cost |-> curCost, trace |-> <<>>, st |-> st1,
                          threw |-> FALSE, marking |-> m]
                    ELSE alignSearch(trace, g, m, curCost, curDepth, st1, env)

\* alignTraceLabel in which a state visited at a cost no higher returns the
\* cost found in alignState
alignTraceLabelReturnsVisited(trace, g, m, curCost, curDepth, st, env) ==
    IF st.maxCost # Undefined /\ curCost >= st.maxCost THEN NoAlignment(st, m)
    ELSE IF curDepth >= env.toDepth THEN NoAlignment(st, m)
    ELSE LET stateStr == stateToStr(m)
             traceLen == Len(trace)
             visitedCost == Visited(st, traceLen, stateStr)
         IN IF visitedCost # Undefined /\ visitedCost <= curCost
            THEN [NoAlignment(st, m) EXCEPT !.cost = visitedCost]
            ELSE LET st1 == WriteVisited(st, traceLen, stateStr, m, curCost, visitedCost)
                 IN IF isAccepting(m) /\ traceLen = 0
                    THEN [cost |-> curCost, trace |-> <<>>, st |-> st1,
                          threw |-> FALSE, marking |-> m]
                    ELSE alignSearch(trace, g, m, curCost, curDepth, st1, env)

alignTraceLabel(trace, g, m, curCost, curDepth, st, env) ==
    IF st.maxCost # Undefined /\ curCost >= st.maxCost THEN NoAlignment(st, m)
    ELSE IF curDepth >= env.toDepth THEN NoAlignment(st, m)
    ELSE LET stateStr == stateToStr(m)
             traceLen == Len(trace)
             visitedCost == Visited(st, traceLen, stateStr)
         IN IF visitedCost # Undefined /\ visitedCost <= curCost THEN NoAlignment(st, m)
            ELSE LET st1 == WriteVisited(st, traceLen, stateStr, m, curCost, visitedCost)
                 IN IF isAccepting(m) /\ traceLen = 0
                    THEN [cost |-> curCost, trace |-> <<>>, st |-> st1,
                          threw |-> FALSE, marking |-> m]
                    ELSE alignSearch(trace, g, m, curCost, curDepth, st1, env)

RECURSIVE SumTraceSkip(_, _)
SumTraceSkip(costFun, trace) ==
    IF Len(trace) = 0 THEN 0
    ELSE alignCost(costFun, "trace-skip", trace[1]) + SumTraceSkip(costFun, Tail(trace))

\* The exported function.
align(trace, g, m, context, costFun, toDepth, pruning) ==
    LET env == [costFun |-> costFun, toDepth |-> toDepth, pruning |-> pruning,
                context |-> context]
        st0 == [maxCost |-> Undefined, alignState |-> (0 :> <<>>), log |-> <<>>, search |-> 0]
        empty == alignTraceLabel(<<>>, g, m, 0, 0, st0, env)
        maxCost == IF toDepth # Infinity THEN toDepth
                   ELSE Plus(SumTraceSkip(costFun, trace), empty.cost)
        m1 == IF toDepth # Infinity THEN m ELSE empty.marking
        st1 == [maxCost |-> maxCost, alignState |-> [i \in 0..Len(trace) |-> <<>>],
                log |-> IF toDepth # Infinity THEN <<>> ELSE empty.st.log, search |-> 1]
    IN alignTraceLabel(trace, g, m1, 0, 0, st1, env)

\* ------------------------------------------------------------ state machine
NoCall == [op |-> "none"]

KernelGraphs == {GraphOf(E, [e \in Events |-> "a"], [e \in Events |-> "r1"]) :
                    E \in SubsetsUpTo(Edges, MaxEdges)}

Init ==
    /\ graph \in KernelGraphs
    /\ marking \in Markings
    /\ call = NoCall

Execute(e) ==
    /\ marking' = execute(e, graph, marking)
    /\ call' = [op |-> "execute", event |-> e, pre |-> marking]
    /\ UNCHANGED graph

\* an event that is not of the graph
UnknownEvent == NEvents + 1

ExecuteUnknown ==
    LET r == executeThrown(UnknownEvent, graph, marking)
    IN /\ marking' = r.marking
       /\ call' = [op |-> "executeUnknown", event |-> UnknownEvent, pre |-> marking,
                   threw |-> r.threw]
       /\ UNCHANGED graph

IsEnabled(e) ==
    /\ call' = [op |-> "isEnabled", event |-> e, pre |-> marking,
                res |-> isEnabled(e, graph, marking)]
    /\ UNCHANGED <<graph, marking>>

GetEnabled ==
    /\ call' = [op |-> "getEnabled", pre |-> marking, res |-> getEnabled(graph, marking)]
    /\ UNCHANGED <<graph, marking>>

Next ==
    \/ \E e \in Events : Execute(e)
    \/ ExecuteUnknown
    \/ \E e \in Events : IsEnabled(e)
    \/ GetEnabled

Spec == Init /\ [][Next]_vars

\* ------------------------------------------- conformance: replay, quantify
\* The role of an element with an unknown activity is never read.
TraceElems == [role : Roles, activity : Labels] \cup {[role |-> "r1", activity |-> UnknownLabel]}

SeqsUpTo(S, n) == UNION {[1..k -> S] : k \in 0..n}

RoleTraces == SeqsUpTo(TraceElems, MaxTraceLen)

ConfGraphs == {GraphOf(E, lm, rm) :
                  E \in SubsetsUpTo(Edges, MaxEdges), lm \in LabelMaps, rm \in RoleMaps}

\* Only the executed flag of an event that conditions another one is ever
\* read, so the initial markings vary it for those events alone.
InitConf ==
    /\ graph \in ConfGraphs
    /\ marking \in {m \in Markings : m.executed \subseteq conditions(graph)}
    /\ call = NoCall

\* One call is made from every initial marking.
ReplayTrace(t) ==
    LET r == replayTraceS(graph, marking, t)
    IN /\ call.op = "none"
       /\ call' = [op |-> "replayTrace", trace |-> t, pre |-> marking, res |-> r]
       /\ marking' = r.marking
       /\ UNCHANGED graph

\* quantifyViolations with the milestone loop of the first candidate run on
\* graph.milestonesFor[event] itself instead of a copySet of it: intersect
\* then removes from the relation the milestones that are not pending
QuantifyViolationsNoCopySet(t) ==
    LET r == quantifyViolations(graph, marking, t)
        hit == {e \in Events : /\ Len(t) > 0
                               /\ graph.labelMap[e] = t[1].activity
                               /\ graph.roleMap[e] = t[1].role}
    IN /\ call.op = "none"
       /\ call' = [op |-> "quantifyViolations", trace |-> t, pre |-> marking, res |-> r]
       /\ marking' = r.marking
       /\ graph' = [graph EXCEPT !.milestonesFor =
                        [e \in Events |-> IF e \in hit THEN @[e] \cap marking.pending
                                          ELSE @[e]]]

QuantifyViolations(t) ==
    LET r == quantifyViolations(graph, marking, t)
    IN /\ call.op = "none"
       /\ call' = [op |-> "quantifyViolations", trace |-> t, pre |-> marking, res |-> r]
       /\ marking' = r.marking
       /\ UNCHANGED graph

NextConf ==
    \/ \E t \in RoleTraces : ReplayTrace(t)
    \/ \E t \in RoleTraces : QuantifyViolations(t)

SpecConf == InitConf /\ [][NextConf]_vars

\* ------------------------------------------------------------------ align
MaxMoveCost == 1

MoveKinds == {"consume", "trace-skip", "model-skip"}

CostFuns == [MoveKinds -> 0..MaxMoveCost]

\* The traces over the labels of the graph, and three traces that hold a
\* label unknown to it.
AlignTraces(g) ==
    SeqsUpTo(labels(g), MaxTraceLen)
        \cup {<<UnknownLabel>>, <<UnknownLabel, "a">>, <<"a", UnknownLabel>>}

DepthLimits == {Infinity}

AlignGraphs == {GraphOf(E, lm, [e \in Events |-> "r1"]) :
                   E \in SubsetsUpTo(Edges, MaxEdges), lm \in LabelMaps}

InitAlign ==
    /\ graph \in AlignGraphs
    /\ marking \in {m \in Markings : /\ m.executed = {}
                                     /\ m.included = Events
                                     /\ m.pending \subseteq {NEvents}}
    /\ call = NoCall

Align(t, costFun, toDepth, pruning) ==
    LET r == align(t, graph, marking, {}, costFun, toDepth, pruning)
    IN /\ call' = [op |-> "align", trace |-> t, costFun |-> costFun, toDepth |-> toDepth,
                   pruning |-> pruning, context |-> {}, pre |-> marking,
                   res |-> [cost |-> r.cost, trace |-> r.trace, threw |-> r.threw]]
       /\ marking' = r.marking
       /\ UNCHANGED graph

\* One call is made from every initial marking.
NextAlign ==
    /\ call.op = "none"
    /\ \E t \in AlignTraces(graph), costFun \in CostFuns, toDepth \in DepthLimits, pruning \in BOOLEAN :
          Align(t, costFun, toDepth, pruning)

SpecAlign == InitAlign /\ [][NextAlign]_vars

\* ---- align with and without a depth limit, on traces over the labels of
\* the graph.  Pruning is off: with a finite toDepth maxCost is never
\* Infinity, so the reachability test is not run.
MaxDepth == 3

FiniteDepths == 1..MaxDepth

NextAlignDepth ==
    /\ call.op = "none"
    /\ \E t \in SeqsUpTo(labels(graph), MaxTraceLen), costFun \in CostFuns,
          toDepth \in FiniteDepths \cup {Infinity} :
          Align(t, costFun, toDepth, FALSE)

SpecAlignDepth == InitAlign /\ [][NextAlignDepth]_vars

\* ---- newGraphEnv, statement by statement, over marking objects.
\* call.heap is the sequence of the marking objects made so far (an object
\* is its index), call.ref the object graph.marking refers to, and the
\* variable marking is the content of that object.  call.saved holds the
\* oldMarking of every newGraphEnv call that is running, the innermost last,
\* and call.entry the content oldMarking had when that call began; call.old
\* and call.before are those two of the call that ended last.
MaxNest == 2

MaxObjects == 4

copyMarking(m) ==
    [executed |-> m.executed, included |-> m.included, pending |-> m.pending]

\* lines 210-211 without the copy: fun runs on the marking of the caller
newGraphEnvInstallNoCopy(heap, ref) == [heap |-> heap, ref |-> ref]

\* const oldMarking = graph.marking; graph.marking = copyMarking(graph.marking)
newGraphEnvInstall(heap, ref) ==
    [heap |-> Append(heap, copyMarking(heap[ref])), ref |-> Len(heap) + 1]

InitEnv ==
    /\ graph \in KernelGraphs
    /\ marking \in {m \in Markings : m.executed = {} /\ m.included = Events}
    /\ call = [op |-> "newGraphEnv", pc |-> "idle", heap |-> <<marking>>, ref |-> 1,
               saved |-> <<>>, entry |-> <<>>, old |-> 1, before |-> marking]

EnvEnter ==
    /\ call.pc \in {"idle", "fun", "returned"}
    /\ Len(call.saved) < MaxNest
    /\ Len(call.heap) < MaxObjects
    /\ LET r == newGraphEnvInstall(call.heap, call.ref)
       IN /\ call' = [call EXCEPT !.pc = "fun", !.heap = r.heap, !.ref = r.ref,
                                   !.saved = Append(@, call.ref),
                                   !.entry = Append(@, call.heap[call.ref])]
          /\ marking' = r.heap[r.ref]
    /\ UNCHANGED graph

\* fun executes an event: execute mutates the object graph.marking refers to
EnvExecute(e) ==
    /\ call.pc = "fun"
    /\ LET m == execute(e, graph, call.heap[call.ref])
       IN /\ call' = [call EXCEPT !.heap[call.ref] = m]
          /\ marking' = m
    /\ UNCHANGED graph

\* fun assigns a new marking object to graph.marking
EnvReplace(m) ==
    /\ call.pc = "fun"
    /\ Len(call.heap) < MaxObjects
    /\ call' = [call EXCEPT !.heap = Append(@, m), !.ref = Len(call.heap) + 1]
    /\ marking' = m
    /\ UNCHANGED graph

\* fun returns: graph.marking = oldMarking; return retval
EnvReturn ==
    /\ call.pc \in {"fun", "returned"}
    /\ call.saved # <<>>
    /\ LET n == Len(call.saved)
       IN /\ call' = [call EXCEPT !.pc = "returned", !.ref = call.saved[n],
                                   !.saved = SubSeq(@, 1, n - 1),
                                   !.entry = SubSeq(@, 1, n - 1),
                                   !.old = call.saved[n], !.before = call.entry[n]]
          /\ marking' = call.heap[call.saved[n]]
    /\ UNCHANGED graph

\* fun throws: newGraphEnv has no handler, so the error leaves every running
\* newGraphEnv call before its assignment graph.marking = oldMarking
EnvThrow ==
    /\ call.pc = "fun"
    /\ call' = [call EXCEPT !.pc = "thrown", !.old = call.saved[1],
                            !.before = call.entry[1]]
    /\ UNCHANGED <<graph, marking>>

NextEnv ==
    \/ EnvEnter
    \/ \E e \in Events : EnvExecute(e)
    \/ EnvReplace([executed |-> {}, included |-> {}, pending |-> {}])
    \/ EnvReturn
    \/ EnvThrow

SpecEnv == InitEnv /\ [][NextEnv]_vars

\* ---- every operation of the core, one call from every initial marking
IsAccepting ==
    /\ call' = [op |-> "isAccepting", pre |-> marking, res |-> isAccepting(marking)]
    /\ UNCHANGED <<graph, marking>>

CanBeExecuted(e, context) ==
    /\ call' = [op |-> "canBeExecuted", event |-> e, context |-> context, pre |-> marking,
                res |-> canBeExecuted(e, graph, marking, context)]
    /\ UNCHANGED <<graph, marking>>

CanBeExecutedOrExcluded(e, context) ==
    /\ call' = [op |-> "canBeExecutedOrExcluded", event |-> e, context |-> context,
                pre |-> marking,
                res |-> canBeExecutedOrExcluded(e, graph, marking, context)]
    /\ UNCHANGED <<graph, marking>>

UnitCost == [k \in MoveKinds |-> MaxMoveCost]

InitCore ==
    /\ graph \in AlignGraphs
    /\ marking \in {m \in Markings : m.executed = {} /\ m.pending \subseteq {NEvents}}
    /\ call = NoCall

NextCore ==
    /\ call.op = "none"
    /\ \/ \E e \in Events : Execute(e)
       \/ \E e \in Events : IsEnabled(e)
       \/ GetEnabled
       \/ IsAccepting
       \/ \E e \in Events : CanBeExecuted(e, {})
       \/ \E e \in Events : CanBeExecutedOrExcluded(e, {})
       \/ \E t \in RoleTraces : ReplayTrace(t)
       \/ \E t \in RoleTraces : QuantifyViolations(t)
       \/ \E t \in AlignTraces(graph), pruning \in BOOLEAN :
             Align(t, UnitCost, Infinity, pruning)

SpecCore == InitCore /\ [][NextCore]_vars

\* ---- align with the history of its writes to alignState: toDepth is
\* MaxDepth or Infinity, pruning is off.  call.st holds maxCost, alignState
\* and the history when the call returns.
SearchCall(t, costFun, toDepth, pre, r) ==
    [op |-> "alignSearch", trace |-> t, costFun |-> costFun, toDepth |-> toDepth,
     pre |-> pre, post |-> r.marking,
     res |-> [cost |-> r.cost, trace |-> r.trace, threw |-> r.threw],
     st |-> r.st]

AlignSearch(t, costFun, toDepth) ==
    /\ call' = SearchCall(t, costFun, toDepth, marking,
                          align(t, graph, marking, {}, costFun, toDepth, FALSE))
    /\ marking' = call'.post
    /\ UNCHANGED graph

\* One call is made from every initial marking.
NextMemo ==
    /\ call.op = "none"
    /\ \E t \in SeqsUpTo(labels(graph), MaxTraceLen), costFun \in CostFuns,
          toDepth \in {MaxDepth, Infinity} :
           AlignSearch(t, costFun, toDepth)

SpecMemo == InitAlign /\ [][NextMemo]_vars

\* ---- align with and without pruning: the same call made from the same
\* marking with pruning = false (call.off) and with pruning = true
\* (call.on), toDepth = Infinity, every context over the labels.
ZeroCost == [k \in MoveKinds |-> 0]

BothCall(t, costFun, context, pre, runs) ==
    [op |-> "alignBoth", trace |-> t, costFun |-> costFun, context |-> context,
     pre |-> pre, post |-> runs[TRUE].marking,
     off |-> [cost |-> runs[FALSE].cost, trace |-> runs[FALSE].trace,
              threw |-> runs[FALSE].threw],
     on |-> [cost |-> runs[TRUE].cost, trace |-> runs[TRUE].trace,
             threw |-> runs[TRUE].threw]]

AlignBoth(t, costFun, context) ==
    /\ call' = BothCall(t, costFun, context, marking,
                        [pruning \in BOOLEAN |->
                            align(t, graph, marking, context, costFun, Infinity, pruning)])
    /\ marking' = call'.post
    /\ UNCHANGED graph

\* One call is made from every initial marking.
NextPrune ==
    /\ call.op = "none"
    /\ \E t \in SeqsUpTo(labels(graph), MaxTraceLen), costFun \in {ZeroCost, UnitCost},
          context \in SUBSET Labels :
           AlignBoth(t, costFun, context)

SpecPrune == InitAlign /\ [][NextPrune]_vars

\* ---- the reachability oracle, with every context over the labels.  One
\* call is made from every initial marking: either the call as a whole
\* (CanBeExecuted, CanBeExecutedOrExcluded), or the call followed down one
\* chain of its recursive calls: call.fn, call.event and call.cycleSets are
\* the function and the arguments of the invocation that is running, and
\* call.depth the number of invocations on the stack.
Contexts == SUBSET Labels

\* conditions and milestones of event that block it in marking m
CondBlockers(event, g, m) ==
    {c \in g.conditionsFor[event] : c \notin m.executed /\ c \in m.included}

MistBlockers(event, g, m) ==
    {c \in g.milestonesFor[event] : c \in m.pending /\ c \in m.included}

Frame(fn, event, cycleSets) == [fn |-> fn, event |-> event, cycleSets |-> cycleSets]

\* the recursive calls made for one blocking event b: canBeExecutedRecur
\* unless b is in exec, and canBeExcludedRecur when that gave false and b is
\* not in excl
BlockerCallsNoCycleTest(b, cs, g, m, context, exempt) ==
    {Frame("canBeExecutedRecur", b, [cs EXCEPT !.exec = @ \cup {b}])}
        \cup (IF ~ canBeExecutedRecur(b, [cs EXCEPT !.exec = @ \cup {b}], g, m, context, exempt)
               THEN {Frame("canBeExcludedRecur", b, [cs EXCEPT !.excl = @ \cup {b}])}
               ELSE {})

BlockerCalls(b, cs, g, m, context, exempt) ==
    (IF b \notin cs.exec
     THEN {Frame("canBeExecutedRecur", b, [cs EXCEPT !.exec = @ \cup {b}])}
     ELSE {})
        \cup (IF /\ ~ (b \notin cs.exec /\ canBeExecutedRecur(b,
                           [cs EXCEPT !.exec = @ \cup {b}], g, m, context, exempt))
                  /\ b \notin cs.excl
               THEN {Frame("canBeExcludedRecur", b, [cs EXCEPT !.excl = @ \cup {b}])}
               ELSE {})

\* the recursive calls of the loop of canBeExcludedRecur / canBeIncludedRecur
\* over the events of from: the loop returns at the first event that can be
\* executed
AnyLoopCalls(from, cs, g, m, context, exempt) ==
    {Frame("canBeExecutedRecur", x, [cs EXCEPT !.exec = @ \cup {x}]) :
        x \in {y \in from :
                  /\ y \notin cs.exec
                  /\ \A z \in from :
                        z < y => ~ (z \notin cs.exec /\ canBeExecutedRecur(z,
                                      [cs EXCEPT !.exec = @ \cup {z}], g, m, context, exempt))}}

\* The invocations that the invocation f makes itself.
OracleCalls(f, g, m, context, exempt) ==
    LET cs == f.cycleSets
        event == f.event
        conds == CondBlockers(event, g, m)
        mists == MistBlockers(event, g, m)
        ok(b) == CanBeExecOrExcl(b, cs, g, m, context, exempt)
    IN IF f.fn = "canBeExcludedRecur"
       THEN AnyLoopCalls(flipEventMap(g.excludesTo)[event], cs, g, m, context, exempt)
       ELSE IF f.fn = "canBeIncludedRecur"
       THEN AnyLoopCalls(flipEventMap(g.includesTo)[event], cs, g, m, context, exempt)
       ELSE IF event # exempt /\ g.labelMap[event] \in context THEN {}
       ELSE IF isEnabled(event, g, m) THEN {}
       ELSE UNION {BlockerCalls(b, cs, g, m, context, exempt) :
                      b \in {c \in conds : \A d \in conds : d < c => ok(d)}}
            \cup (IF \A d \in conds : ok(d)
                   THEN UNION {BlockerCalls(b, cs, g, m, context, exempt) :
                                  b \in {c \in mists : \A d \in mists : d < c => ok(d)}}
                   ELSE {})
            \cup (IF /\ \A d \in conds \cup mists : ok(d)
                      /\ event \notin m.included
                      /\ event \notin cs.incl
                   THEN {Frame("canBeIncludedRecur", event, [cs EXCEPT !.incl = @ \cup {event}])}
                   ELSE {})

\* no chain of invocations is longer than this: the guard of OracleCall
MaxCallDepth == 3 * NEvents + 2

\* the first invocation of canBeExecuted (exempt = origEvent) and of
\* canBeExecutedOrExcluded (exempt = NoEvent)
OracleEnter(entry, e, context) ==
    /\ call.op = "none"
    /\ call' = [op |-> "oracleFrame", entry |-> entry, context |-> context,
                exempt |-> IF entry = "canBeExecuted" THEN e ELSE NoEvent,
                fn |-> "canBeExecutedRecur", event |-> e,
                cycleSets |-> [excl |-> {}, exec |-> {e}, incl |-> {}],
                depth |-> 1, pre |-> marking]
    /\ UNCHANGED <<graph, marking>>

\* the second invocation of canBeExecutedOrExcluded, made when the first
\* returned false
OracleEnterExcluded(e, context) ==
    /\ call.op = "none"
    /\ ~ canBeExecutedRecur(e, [excl |-> {}, exec |-> {e}, incl |-> {}],
                            graph, marking, context, NoEvent)
    /\ call' = [op |-> "oracleFrame", entry |-> "canBeExecutedOrExcluded",
                context |-> context, exempt |-> NoEvent,
                fn |-> "canBeExcludedRecur", event |-> e,
                cycleSets |-> [excl |-> {e}, exec |-> {}, incl |-> {}],
                depth |-> 1, pre |-> marking]
    /\ UNCHANGED <<graph, marking>>

\* the running invocation makes one of its recursive calls
OracleCall ==
    /\ call.op = "oracleFrame"
    /\ call.depth < MaxCallDepth
    /\ \E f \in OracleCalls(Frame(call.fn, call.event, call.cycleSets),
                             graph, marking, call.context, call.exempt) :
          call' = [call EXCEPT !.fn = f.fn, !.event = f.event, !.cycleSets = f.cycleSets,
                               !.depth = @ + 1]
    /\ UNCHANGED <<graph, marking>>

InitOracle ==
    /\ graph \in AlignGraphs
    /\ marking \in {m \in Markings : m.executed \subseteq conditions(graph)}
    /\ call = NoCall

NextOracle ==
    \/ /\ call.op = "none"
       /\ \E e \in Events, context \in Contexts : CanBeExecuted(e, context)
    \/ /\ call.op = "none"
       /\ \E e \in Events, context \in Contexts : CanBeExecutedOrExcluded(e, context)
    \/ \E e \in Events, context \in Contexts,
            entry \in {"canBeExecuted", "canBeExecutedOrExcluded"} :
          OracleEnter(entry, e, context)
    \/ \E e \in Events, context \in Contexts : OracleEnterExcluded(e, context)
    \/ OracleCall

SpecOracle == InitOracle /\ [][NextOracle]_vars

\* ================================================================== claims

\* ---- C7: isEnabled(e, g) is true iff e is included, every condition of e
\* is not included or executed, and every milestone of e is not included or
\* not pending.
EnabledBySpec(e, g, m) ==
    /\ e \in m.included
    /\ \A c \in g.conditionsFor[e] : c \notin m.included \/ c \in m.executed
    /\ \A ms \in g.milestonesFor[e] : ms \notin m.included \/ ms \notin m.pending

C7_IsEnabledIff ==
    call.op = "isEnabled" => (call.res <=> EnabledBySpec(call.event, graph, call.pre))

\* an enabled event whose only condition is excluded and unexecuted and whose
\* only milestone is pending but excluded
C7_Witness ==
    /\ call.op = "isEnabled"
    /\ call.res = TRUE
    /\ \E c \in graph.conditionsFor[call.event] :
          c \notin marking.included /\ c \notin marking.executed
    /\ \E ms \in graph.milestonesFor[call.event] :
          ms \notin marking.included /\ ms \in marking.pending

\* ---- C8: in every reachable marking getEnabled(g) is exactly the set of
\* events e for which isEnabled(e, g) is true.
C8_GetEnabledIsEnabledSet ==
    call.op = "getEnabled" =>
        call.res = {e \in Events : isEnabled(e, graph, call.pre)}

\* getEnabled found one event enabled and an included event blocked
C8_Witness ==
    /\ call.op = "getEnabled"
    /\ Cardinality(call.res) = 1
    /\ \E e \in Events \ call.res : e \in marking.included

\* ---- C9 (as stated): after execute(e, g), e is not in pending, for every
\* graph, marking and event e.
C9_Original ==
    call.op = "execute" => call.event \notin marking.pending

\* ---- C9 (amended): after execute(e, g), e is not in pending unless e is
\* one of its own responses (e in responseTo[e]), in which case it is pending.
C9_NotPendingUnlessSelfResponse ==
    call.op = "execute" =>
        (call.event \in marking.pending <=> call.event \in graph.responseTo[call.event])

\* a pending event without self-response was executed and made another pending
C9_Witness ==
    /\ call.op = "execute"
    /\ call.event \in call.pre.pending
    /\ call.event \notin graph.responseTo[call.event]
    /\ graph.responseTo[call.event] # {}
    /\ call.event \notin marking.pending

\* ---- C10: after execute(e, g) every r in responseTo[e] is pending, and
\* every event outside responseTo[e] \cup {e} keeps its pending status.
C10_ResponsesPendingOthersKept ==
    call.op = "execute" =>
        /\ graph.responseTo[call.event] \subseteq marking.pending
        /\ \A o \in Events \ (graph.responseTo[call.event] \cup {call.event}) :
              o \in marking.pending <=> o \in call.pre.pending

\* a response target that was not pending became pending
C10_Witness ==
    /\ call.op = "execute"
    /\ \E r \in graph.responseTo[call.event] :
          r # call.event /\ r \notin call.pre.pending /\ r \in marking.pending

\* the frame half of C10: an untouched event kept a pending flag
C10_WitnessFrame ==
    /\ call.op = "execute"
    /\ \E o \in Events \ (graph.responseTo[call.event] \cup {call.event}) :
          o \in call.pre.pending /\ o \in marking.pending

\* ---- C11: after execute(e, g) the included set is (included before minus
\* excludesTo[e]) union includesTo[e]; an event that e both excludes and
\* includes, e itself too, is included.
C11_IncludedAfterExecute ==
    call.op = "execute" =>
        marking.included =
            (call.pre.included \ graph.excludesTo[call.event]) \cup graph.includesTo[call.event]

\* an included event that excludes and includes itself was executed and is
\* still included
C11_Witness ==
    /\ call.op = "execute"
    /\ call.event \in call.pre.included
    /\ call.event \in graph.excludesTo[call.event]
    /\ call.event \in graph.includesTo[call.event]
    /\ call.event \in marking.included

\* ---- C12: from a graph whose relations and marking reference only events,
\* after any sequence of execute calls executed, included and pending are
\* subsets of events.
C12_MarkingWithinEvents ==
    /\ marking.executed \subseteq Events
    /\ marking.included \subseteq Events
    /\ marking.pending \subseteq Events

\* an execute call changed all three sets of the marking
C12_Witness ==
    /\ call.op = "execute"
    /\ marking.executed # call.pre.executed
    /\ marking.included # call.pre.included
    /\ marking.pending # call.pre.pending

\* ---- C13: execute(e, g) removes no event from executed and adds e iff e
\* is in g.conditions; so executed only grows, stays within what it was
\* together with conditions, and keeps the events that get excluded.
C13_ExecutedOnlyGrows ==
    [][/\ marking.executed \subseteq marking'.executed
       /\ marking'.executed \subseteq marking.executed \cup conditions(graph)
       /\ call'.op = "execute" =>
              marking'.executed = marking.executed \cup ({call'.event} \cap conditions(graph))]_vars

\* an event outside conditions was executed and is not in executed, and an
\* executed event that it excluded is still in executed
C13_Witness ==
    /\ call.op = "execute"
    /\ call.event \notin conditions(graph)
    /\ call.event \notin marking.executed
    /\ \E x \in call.pre.executed \cap graph.excludesTo[call.event] :
          x \in call.pre.included /\ x \notin marking.included /\ x \in marking.executed

\* an event of conditions that was not in executed was added by its execution
C13_WitnessAdded ==
    /\ call.op = "execute"
    /\ call.event \in conditions(graph)
    /\ call.event \notin call.pre.executed
    /\ call.event \in marking.executed


\* ---- reference semantics of a run that resolves trace element k to ch[k]
\* (elements whose activity is no label of the graph are passed over)
KnownAt(g, trace, k) == trace[k].activity \in labels(g)

RECURSIVE MarkingBefore(_, _, _, _, _)
MarkingBefore(g, m, trace, ch, k) ==
    IF k = 1 THEN m
    ELSE LET p == MarkingBefore(g, m, trace, ch, k - 1)
         IN IF KnownAt(g, trace, k - 1) THEN executeS(ch[k - 1], g, p) ELSE p

Matches(g, el, e) == g.labelMap[e] = el.activity /\ g.roleMap[e] = el.role

AcceptingRunExists(g, m, trace) ==
    \E ch \in [1..Len(trace) -> Events] :
        /\ \A k \in 1..Len(trace) : KnownAt(g, trace, k) =>
              /\ Matches(g, trace[k], ch[k])
              /\ isEnabledS(ch[k], g, MarkingBefore(g, m, trace, ch, k))
        /\ isAcceptingS(MarkingBefore(g, m, trace, ch, Len(trace) + 1))

\* ---- C4: replayTrace(g, trace) is true iff some choice of a matching event
\* for every trace element with a known activity runs, each event enabled
\* when executed, to an accepting marking.
C4_ReplayIffAcceptingRun ==
    call.op = "replayTrace" =>
        (call.res.retval <=> AcceptingRunExists(graph, call.pre, call.trace))

\* replay succeeded on a two-element trace although the first candidate for
\* its head, enabled, leads to no accepting run: the second candidate did
C4_Witness ==
    /\ call.op = "replayTrace"
    /\ call.res.retval = TRUE
    /\ Len(call.trace) = 2
    /\ Matches(graph, call.trace[1], 1) /\ Matches(graph, call.trace[1], 2)
    /\ isEnabledS(1, graph, call.pre)
    /\ ~ replayTraceS(graph, executeS(1, graph, call.pre), Tail(call.trace)).retval

\* ---- the violations counted along the run of a resolution
Resolutions(g, trace) ==
    {ch \in [1..Len(trace) -> Events] : \A k \in 1..Len(trace) : Matches(g, trace[k], ch[k])}

MaxOf(S) == CHOOSE x \in S : \A y \in S : y <= x
MinOf(S) == CHOOSE x \in S : \A y \in S : x <= y

\* the first position from which firings count for "since e was last included"
SinceIncluded(g, ch, e, k) ==
    LET S == {j \in 1..(k - 1) : e \in g.includesTo[ch[j]]}
    IN IF S = {} THEN 1 ELSE MaxOf(S)

\* the first position from which firings count for "since e was last executed"
SinceExecuted(ch, e, n) ==
    LET S == {j \in 1..n : ch[j] = e}
    IN IF S = {} THEN 1 ELSE MaxOf(S)

StepViolations(g, m, trace, ch, k) ==
    LET e == ch[k]
        mk == MarkingBefore(g, m, trace, ch, k)
        cond == {c \in g.conditionsFor[e] : c \in mk.included /\ c \notin mk.executed}
        mile == {x \in g.milestonesFor[e] : x \in mk.included /\ x \in mk.pending}
        excl == IF e \in mk.included THEN {}
                ELSE {o \in Events : /\ e \in g.excludesTo[o]
                                     /\ \E j \in SinceIncluded(g, ch, e, k)..(k - 1) : ch[j] = o}
    IN Cardinality(cond) + Cardinality(mile) + Cardinality(excl)

EndViolations(g, m, trace, ch) ==
    LET n == Len(trace)
        mEnd == MarkingBefore(g, m, trace, ch, n + 1)
    IN Cardinality({pr \in Events \X Events :
          /\ pr[2] \in mEnd.pending \cap mEnd.included
          /\ pr[2] \in g.responseTo[pr[1]]
          /\ \E j \in SinceExecuted(ch, pr[2], n)..n : ch[j] = pr[1]})

RECURSIVE SumSteps(_, _, _, _, _)
SumSteps(g, m, trace, ch, k) ==
    IF k = 0 THEN 0 ELSE StepViolations(g, m, trace, ch, k) + SumSteps(g, m, trace, ch, k - 1)

RunViolations(g, m, trace, ch) ==
    SumSteps(g, m, trace, ch, Len(trace)) + EndViolations(g, m, trace, ch)

MinViolations(g, m, trace) ==
    LET R == Resolutions(g, trace)
    IN IF R = {} THEN Infinity ELSE MinOf({RunViolations(g, m, trace, ch) : ch \in R})

\* ---- C5: quantifyViolations(g, trace).totalViolations is the minimum, over
\* all resolutions of every trace element to an event with its activity and
\* role, of the violations counted along the run of the resolved events.
C5_TotalIsMinimum ==
    call.op = "quantifyViolations" =>
        /\ ~ call.res.threw
        /\ call.res.totalViolations = MinViolations(graph, call.pre, call.trace)

\* the same on the calls that return
C5_TotalIsMinimumWhenReturned ==
    (call.op = "quantifyViolations" /\ ~ call.res.threw) =>
        call.res.totalViolations = MinViolations(graph, call.pre, call.trace)

\* ---- C6: if replayTrace(g, t) is true then quantifyViolations(g, t) has
\* totalViolations = 0, also for traces with activities not in g.labels.
C6_ReplayedMeansNoViolations ==
    (call.op = "replayTrace" /\ call.res.retval) =>
        LET q == quantifyViolations(graph, call.pre, call.trace)
        IN ~ q.threw /\ q.totalViolations = 0

\* the same where quantifyViolations returns
C6_WhenReturned ==
    (call.op = "replayTrace" /\ call.res.retval) =>
        LET q == quantifyViolations(graph, call.pre, call.trace)
        IN ~ q.threw => q.totalViolations = 0

\* ---- The cheapest alignment, computed without the search of align: the
\* least cost of a path from (no token consumed, m) to (all tokens consumed,
\* an accepting marking), where a consume move executes an enabled event
\* labelled as the next token, a trace-skip move drops the next token and a
\* model-skip move executes any enabled event.
RECURSIVE ReachableFrom(_, _)
ReachableFrom(g, M) ==
    LET N == M \cup {execute(e, g, m) : e \in Events, m \in M}
    IN IF N = M THEN M ELSE ReachableFrom(g, N)

AlignMoves(g, trace, costFun, n) ==
    LET i == n[1]
        m == n[2]
        en == {e \in Events : EnabledBySpec(e, g, m)}
    IN {<<costFun["model-skip"], <<i, execute(e, g, m)>>>> : e \in en}
       \cup (IF i < Len(trace)
              THEN {<<costFun["trace-skip"], <<i + 1, m>>>>}
                   \cup {<<costFun["consume"], <<i + 1, execute(e, g, m)>>>> :
                             e \in {x \in en : g.labelMap[x] = trace[i + 1]}}
              ELSE {})

RECURSIVE LeastCost(_, _, _, _, _)
LeastCost(g, trace, costFun, Nodes, V) ==
    LET W == [n \in Nodes |->
                 MinOf({V[n]} \cup {Plus(mv[1], V[mv[2]]) :
                                       mv \in AlignMoves(g, trace, costFun, n)})]
    IN IF W = V THEN V ELSE LeastCost(g, trace, costFun, Nodes, W)

MinAlignCost(g, m, trace, costFun) ==
    LET Nodes == (0..Len(trace)) \X ReachableFrom(g, {m})
        V0 == [n \in Nodes |->
                  IF n[1] = Len(trace) /\ n[2].pending \cap n[2].included = {}
                  THEN 0 ELSE Infinity]
    IN LeastCost(g, trace, costFun, Nodes, V0)[<<0, m>>]

\* ---- C1: with depthLimit = infinity, the cost align returns is the least
\* total cost of a sequence of consume, trace-skip and model-skip moves that
\* starts in the current marking, consumes the whole trace and ends in an
\* accepting marking, and infinity only if there is none.
C1_CostIsMinimum ==
    (call.op = "align" /\ call.toDepth = Infinity /\ ~ call.res.threw) =>
        call.res.cost = MinAlignCost(graph, call.pre, call.trace, call.costFun)

\* the cost of skipping every token and then aligning the empty trace
SkipAllBound(g, m, trace, costFun) ==
    Plus(SumTraceSkip(costFun, trace), MinAlignCost(g, m, <<>>, costFun))

\* ---- C2: with depthLimit = infinity, the cost align returns is at most the
\* sum of the trace-skip costs of the tokens plus the cost of aligning the
\* empty trace from the same marking, whenever that sum is finite.
C2_CostAtMostSkipAll ==
    (call.op = "align" /\ call.toDepth = Infinity /\ ~ call.res.threw) =>
        LET bound == SkipAllBound(graph, call.pre, call.trace, call.costFun)
        IN bound < Infinity => call.res.cost <= bound

HasUnknownLabel(g, trace) == \E i \in 1..Len(trace) : trace[i] \notin labels(g)

\* ---- C3: align on a trace that holds a label unknown to the graph raises
\* no error and returns an alignment in which that token is trace-skipped.
C3_UnknownLabelNoError ==
    (call.op = "align" /\ HasUnknownLabel(graph, call.trace)) =>
        /\ ~ call.res.threw
        /\ call.res.cost = MinAlignCost(graph, call.pre, call.trace, call.costFun)

\* the part of C1 that does hold: a finite cost returned is the least cost
C1_FiniteCostIsMinimum ==
    (call.op = "align" /\ ~ call.res.threw /\ call.res.cost < Infinity) =>
        call.res.cost = MinAlignCost(graph, call.pre, call.trace, call.costFun)

\* and an infinite cost is returned only where the least cost is the bound
\* that align starts from, or no alignment exists
C1_InfiniteOnlyAtBound ==
    (call.op = "align" /\ ~ call.res.threw /\ call.res.cost >= Infinity) =>
        LET least == MinAlignCost(graph, call.pre, call.trace, call.costFun)
        IN least >= SkipAllBound(graph, call.pre, call.trace, call.costFun)

\* ---- The moves behind a returned alignment: evs is the sequence of events
\* fired, by consume moves (the event carries the label of the next token)
\* and by model-skip moves; a trace-skip move drops the next token and fires
\* nothing.  TRUE when some such sequence of moves fires exactly evs, each
\* event enabled when fired, consumes or skips every token, ends in an
\* accepting marking and costs exactly cost.
RECURSIVE Realises(_, _, _, _, _, _)
Realises(g, m, trace, evs, costFun, cost) ==
    /\ cost >= 0
    /\ \/ /\ Len(trace) = 0 /\ Len(evs) = 0
          /\ cost = 0
          /\ m.pending \cap m.included = {}
       \/ /\ Len(trace) > 0
          /\ Realises(g, m, Tail(trace), evs, costFun, cost - costFun["trace-skip"])
       \/ /\ Len(evs) > 0
          /\ EnabledBySpec(evs[1], g, m)
          /\ \/ /\ Len(trace) > 0
                /\ g.labelMap[evs[1]] = trace[1]
                /\ Realises(g, execute(evs[1], g, m), Tail(trace), Tail(evs), costFun,
                            cost - costFun["consume"])
             \/ Realises(g, execute(evs[1], g, m), trace, Tail(evs), costFun,
                         cost - costFun["model-skip"])

\* ---- C14: when align returns a finite cost, the events of the returned
\* trace, executed in order from the marking of the call, are each enabled
\* when executed and end in an accepting marking, and the events fired by
\* consume moves carry, in order, the labels of the tokens not trace-skipped
\* (the moves cost what align returned).
C14_ReturnedTraceIsAlignment ==
    (call.op = "align" /\ ~ call.res.threw /\ call.res.cost < Infinity) =>
        Realises(graph, call.pre, call.trace, call.res.trace, call.costFun, call.res.cost)

\* align returned an alignment with a consume, a trace-skip and a model-skip
C14_Witness ==
    /\ call.op = "align" /\ ~ call.res.threw
    /\ call.res.cost = 3
    /\ call.costFun = [k \in MoveKinds |-> 1]
    /\ Len(call.trace) = 2
    /\ Len(call.res.trace) = 2

\* ---- C15: for a fixed trace, graph, context and cost function, if
\* D1 <= D2 then align with depthLimit D2 returns a cost no greater than
\* align with depthLimit D1.
C15_DepthMonotone ==
    (call.op = "align" /\ ~ call.res.threw) =>
        \A D2 \in FiniteDepths \cup {Infinity} :
            call.toDepth <= D2 =>
                align(call.trace, graph, call.pre, call.context, call.costFun, D2,
                      call.pruning).cost <= call.res.cost

\* the same between two finite depth limits
C15_FiniteDepthMonotone ==
    (call.op = "align" /\ ~ call.res.threw) =>
        \A D2 \in FiniteDepths :
            call.toDepth <= D2 =>
                align(call.trace, graph, call.pre, call.context, call.costFun, D2,
                      call.pruning).cost <= call.res.cost

\* ---- The least cost of an alignment of at most n moves.
RECURSIVE MinCostWithin(_, _, _, _, _)
MinCostWithin(g, m, trace, costFun, n) ==
    IF Len(trace) = 0 /\ m.pending \cap m.included = {} THEN 0
    ELSE IF n = 0 THEN Infinity
    ELSE LET en == {e \in Events : EnabledBySpec(e, g, m)}
             skipModel == {Plus(costFun["model-skip"],
                                MinCostWithin(g, execute(e, g, m), trace, costFun, n - 1)) :
                              e \in en}
             skipTrace == IF Len(trace) = 0 THEN {}
                          ELSE {Plus(costFun["trace-skip"],
                                     MinCostWithin(g, m, Tail(trace), costFun, n - 1))}
             consume == IF Len(trace) = 0 THEN {}
                        ELSE {Plus(costFun["consume"],
                                   MinCostWithin(g, execute(e, g, m), Tail(trace), costFun, n - 1)) :
                                 e \in {x \in en : g.labelMap[x] = trace[1]}}
         IN MinOf({Infinity} \cup skipModel \cup skipTrace \cup consume)

\* ---- C16: with a finite depthLimit D, align returns cost infinity only if
\* no sequence of fewer than D moves with total cost below D consumes the
\* whole trace and ends in an accepting marking.
C16_InfinityMeansNoneWithinBound ==
    (call.op = "align" /\ call.toDepth < Infinity /\ ~ call.res.threw
        /\ call.res.cost >= Infinity) =>
        MinCostWithin(graph, call.pre, call.trace, call.costFun, call.toDepth - 1)
            >= call.toDepth

\* ---- C17: after newGraphEnv(g, f) returns normally, g.marking is the
\* marking object installed before the call, and its executed, included and
\* pending sets are what they were before the call, whatever f did to
\* g.marking (executing events, or replacing g.marking).
C17_RestoredOnReturn ==
    (call.op = "newGraphEnv" /\ call.pc = "returned") =>
        /\ call.ref = call.old
        /\ marking = call.before
        /\ call.heap[call.old] = call.before

\* a call returned whose fun had executed an event that changed the marking
\* it ran on, and had then replaced graph.marking
C17_Witness ==
    /\ call.op = "newGraphEnv" /\ call.pc = "returned"
    /\ Len(call.heap) >= 3
    /\ call.heap[2] # call.heap[1]
    /\ call.heap[3] # call.heap[1]

\* ---- C18: if f raises an error inside newGraphEnv(g, f), g.marking is
\* still restored to the marking it had before the call.
C18_RestoredOnError ==
    (call.op = "newGraphEnv" /\ call.pc = "thrown") =>
        /\ call.ref = call.old
        /\ marking = call.before

\* ---- C19: after replayTrace, quantifyViolations or align returns normally,
\* g.marking has the executed, included and pending sets it had before the
\* call.
C19_MarkingKept ==
    /\ call.op = "replayTrace" => marking = call.pre
    /\ (call.op \in {"quantifyViolations", "align"} /\ ~ call.res.threw) =>
           marking = call.pre

\* align returned an alignment that executes an event which changes the
\* marking, and the marking after the call is the one before it
C19_Witness ==
    /\ call.op = "align" /\ ~ call.res.threw
    /\ call.res.cost < Infinity
    /\ \E i \in 1..Len(call.res.trace) :
          execute(call.res.trace[i], graph, call.pre) # call.pre
    /\ marking = call.pre

\* replay accepted a trace whose first event changes the marking
C19_WitnessReplay ==
    /\ call.op = "replayTrace" /\ call.res.retval
    /\ Len(call.trace) > 0
    /\ \A e \in Events : execute(e, graph, call.pre) # call.pre
    /\ marking = call.pre

ScenarioGraph ==
    GraphOf({<<"conditionsFor", 2, 1>>}, [e \in Events |-> IF e = 1 THEN "a" ELSE "b"],
            [e \in Events |-> "r1"])

ScenarioCall ==
    /\ call.op = "align"
    /\ graph = ScenarioGraph
    /\ call.pre = [executed |-> {}, included |-> Events, pending |-> {}]
    /\ call.trace = <<"b">>
    /\ call.costFun = UnitCost
    /\ call.toDepth = Infinity

\* ---- C22: for the graph with events {A, B}, conditionsFor[B] = {A}, both
\* included, nothing executed or pending, the trace [B] and unit costs, align
\* returns cost 2 and trace [A, B].
C22_ScenarioModelSkip ==
    ScenarioCall => (call.res.cost = 2 /\ call.res.trace = <<1, 2>>)

\* what align returns on the scenario, and the cheapest alignment there:
\* skipping the token B costs 1 and the marking is accepting
C22_ScenarioReturnsInfinity ==
    ScenarioCall =>
        /\ call.res.cost = Infinity /\ call.res.trace = <<>> /\ ~ call.res.threw
        /\ MinAlignCost(graph, call.pre, call.trace, call.costFun) = 1

\* ================================================== persisted files (C21)
\* A JavaScript value is a record [kind, atom, items, keys]: a string or a
\* number (atom is its text), null, an array (items), a Set (items in
\* insertion order) or an object (keys with the values in items).  The text
\* that writeSerialized produces is the JSON document it denotes: a value
\* without Sets.
MaxItems == 2

Str(s) == [kind |-> "string", atom |-> s, items |-> <<>>, keys |-> <<>>]
Num(s) == [kind |-> "number", atom |-> s, items |-> <<>>, keys |-> <<>>]
Null == [kind |-> "null", atom |-> "null", items |-> <<>>, keys |-> <<>>]
Arr(items) == [kind |-> "array", atom |-> "", items |-> items, keys |-> <<>>]
SetOf(items) == [kind |-> "set", atom |-> "", items |-> items, keys |-> <<>>]
Obj(keys, items) == [kind |-> "object", atom |-> "", items |-> items, keys |-> keys]

AtomKinds == {"string", "number", "null"}

\* the key under which the i-th element of an array is visited
IndexKey(i) == ToString(i - 1)

\* set2JSON: a Set becomes the array of its members
set2JSON(key, value) ==
    IF value.kind = "set" THEN Arr(value.items) ELSE value

\* JSON.stringify(obj, set2JSON, 4): the replacer is applied to a value before
\* it is written, then to every element or property of what it returned; a
\* number that is not finite is written as null.
RECURSIVE stringify(_, _)
stringify(key, holderValue) ==
    LET value == set2JSON(key, holderValue)
    IN IF value.kind = "number" /\ value.atom = "Infinity" THEN Null
       ELSE IF value.kind = "array"
       THEN Arr([i \in 1..Len(value.items) |-> stringify(IndexKey(i), value.items[i])])
       ELSE IF value.kind = "object"
       THEN Obj(value.keys,
                [i \in 1..Len(value.items) |-> stringify(value.keys[i], value.items[i])])
       ELSE value

writeSerialized(obj) == stringify("", obj)

\* new Set(value): members equal to an earlier member are dropped; strings
\* and numbers are equal by value, and two parsed arrays or objects never are
RECURSIVE NewSetLoop(_, _, _)
NewSetLoop(value, i, acc) ==
    IF i > Len(value) THEN acc
    ELSE IF value[i].kind \in AtomKinds /\ \E j \in 1..Len(acc) : acc[j] = value[i]
    THEN NewSetLoop(value, i + 1, acc)
    ELSE NewSetLoop(value, i + 1, Append(acc, value[i]))

NewSet(value) == SetOf(NewSetLoop(value, 1, <<>>))

\* JSON2Set: an array becomes a Set unless its key is "trace"
JSON2Set(key, value) ==
    IF value.kind = "array" /\ key # "trace" THEN NewSet(value.items) ELSE value

\* JSON.parse(data, JSON2Set): the reviver is applied bottom-up, to every
\* element and property first and then to the value that holds them
RECURSIVE revive(_, _)
revive(key, value) ==
    LET inner == IF value.kind = "array"
                 THEN Arr([i \in 1..Len(value.items) |-> revive(IndexKey(i), value.items[i])])
                 ELSE IF value.kind = "object"
                 THEN Obj(value.keys,
                          [i \in 1..Len(value.items) |-> revive(value.keys[i], value.items[i])])
                 ELSE value
    IN JSON2Set(key, inner)

parseSerialized(data) == revive("", data)

\* ---- the values that are written: atoms, arrays and Sets of them, arrays
\* and Sets of those, and objects that hold such values under the keys
\* "trace" and "events"
SerialAtoms == {Str("a"), Num("1"), Num("Infinity")}

SerialKeys == {"trace", "events"}

\* no two members of a Set are the same string or number
ArraysOver(S) == {Arr(s) : s \in SeqsUpTo(S, MaxItems)}

SetsOver(S) ==
    {SetOf(s) : s \in {t \in SeqsUpTo(S, MaxItems) :
                          \A i, j \in 1..Len(t) :
                              (i < j /\ t[i].kind \in AtomKinds) => t[i] # t[j]}}

SerialFlat == SerialAtoms \cup ArraysOver(SerialAtoms) \cup SetsOver(SerialAtoms)

SerialNested == SerialFlat \cup ArraysOver(SerialFlat) \cup SetsOver(SerialFlat)

SerialValues ==
    SerialNested
        \cup {Obj(<<k>>, <<v>>) : k \in SerialKeys, v \in SerialNested}
        \cup {Obj(<<"events", "trace">>, <<v, w>>) : v \in SerialFlat, w \in SerialFlat}

\* the marking as it is persisted: an object of three Sets of event names
MarkingValue(m) ==
    Obj(<<"executed", "included", "pending">>,
        <<SetOf([i \in 1..Cardinality(m.executed) |-> Str(ToString(SetToSeq(m.executed)[i]))]),
          SetOf([i \in 1..Cardinality(m.included) |-> Str(ToString(SetToSeq(m.included)[i]))]),
          SetOf([i \in 1..Cardinality(m.pending) |-> Str(ToString(SetToSeq(m.pending)[i]))])>>)

InitSerial ==
    /\ graph = GraphOf({}, [e \in Events |-> "a"], [e \in Events |-> "r1"])
    /\ marking \in {m \in Markings : m.executed = {} /\ m.pending = {}}
    /\ \E x \in SerialValues \cup {MarkingValue(marking)} :
          call = [op |-> "serialize", pc |-> "value", x |-> x, data |-> Null, y |-> Null]

WriteSerialized ==
    /\ call.pc = "value"
    /\ call' = [call EXCEPT !.pc = "written", !.data = writeSerialized(call.x)]
    /\ UNCHANGED <<graph, marking>>

ParseSerialized ==
    /\ call.pc = "written"
    /\ call' = [call EXCEPT !.pc = "parsed", !.y = parseSerialized(call.data)]
    /\ UNCHANGED <<graph, marking>>

NextSerial == WriteSerialized \/ ParseSerialized

SpecSerial == InitSerial /\ [][NextSerial]_vars

\* ---- equality up to set equality: Sets with the same members, arrays with
\* the same elements in the same order, objects with the same properties
RECURSIVE SameUpToSets(_, _)
SameUpToSets(x, y) ==
    /\ x.kind = y.kind
    /\ IF x.kind \in AtomKinds THEN x.atom = y.atom
       ELSE IF x.kind = "set"
       THEN /\ \A i \in 1..Len(x.items) : \E j \in 1..Len(y.items) :
                   SameUpToSets(x.items[i], y.items[j])
            /\ \A j \in 1..Len(y.items) : \E i \in 1..Len(x.items) :
                   SameUpToSets(x.items[i], y.items[j])
       ELSE /\ Len(x.items) = Len(y.items)
            /\ x.keys = y.keys
            /\ \A i \in 1..Len(x.items) : SameUpToSets(x.items[i], y.items[i])

\* ---- C21: for every value x built from objects, strings, numbers, Sets and
\* arrays, parseSerialized(writeSerialized(x)) equals x up to set equality:
\* every Set comes back as a Set with the same members and every array comes
\* back as an array with the same elements in the same order, wherever it is
\* nested and whatever key it is stored under.
C21_RoundTrip ==
    (call.op = "serialize" /\ call.pc = "parsed") => SameUpToSets(call.y, call.x)

\* a value in which every array is the value of a property "trace" and holds
\* no array or Set, every Set is elsewhere, and every number is finite
RECURSIVE TraceKeyed(_, _)
TraceKeyed(key, x) ==
    IF x.kind = "number" THEN x.atom # "Infinity"
    ELSE IF x.kind \in AtomKinds THEN TRUE
    ELSE IF x.kind = "array"
    THEN key = "trace" /\ \A i \in 1..Len(x.items) : x.items[i].kind \in {"string", "null"}
                       \/ (x.items[i].kind = "number" /\ x.items[i].atom # "Infinity")
    ELSE IF x.kind = "set"
    THEN key # "trace" /\ \A i \in 1..Len(x.items) : TraceKeyed(IndexKey(i), x.items[i])
    ELSE \A i \in 1..Len(x.items) : TraceKeyed(x.keys[i], x.items[i])

\* the round trip does hold on those values
C21_RoundTripWhenTraceKeyed ==
    (call.op = "serialize" /\ call.pc = "parsed" /\ TraceKeyed("", call.x)) =>
        SameUpToSets(call.y, call.x)

C21_TraceKeyedReached ==
    /\ call.op = "serialize" /\ call.pc = "parsed" /\ TraceKeyed("", call.x)
    /\ call.x.kind = "object" /\ Len(call.x.items) = 2
    /\ call.x.items[1].kind = "set" /\ Len(call.x.items[1].items) = 2
    /\ call.x.items[2].kind = "array" /\ Len(call.x.items[2].items) = 2

\* ============================================== graph construction (C23)
\* Graphs as they are handed to graphToGraphPP: a relation may refer to an
\* identifier that is no member of events.
RawEvents == Events \cup {UnknownEvent}

RawEdges == RelKinds \X Events \X RawEvents

RawEventMapOf(E, kind) == [k \in Events |-> {v \in RawEvents : <<kind, k, v>> \in E}]

RawGraphs ==
    {[conditionsFor |-> RawEventMapOf(E, "conditionsFor"),
      milestonesFor |-> RawEventMapOf(E, "milestonesFor"),
      responseTo    |-> RawEventMapOf(E, "responseTo"),
      excludesTo    |-> RawEventMapOf(E, "excludesTo"),
      includesTo    |-> RawEventMapOf(E, "includesTo"),
      labelMap      |-> [e \in Events |-> "a"],
      roleMap       |-> [e \in Events |-> "r1"]] : E \in SubsetsUpTo(RawEdges, MaxEdges)}

\* graphToGraphPP: the graph with conditions, includesFor and excludesFor
\* added; no statement of it or of flipEventMap tests membership in events.
graphToGraphPP(g) ==
    [threw |-> FALSE,
     graph |-> g @@ [conditions  |-> UNION {g.conditionsFor[key] : key \in DOMAIN g.conditionsFor},
                     includesFor |-> flipEventMap(g.includesTo),
                     excludesFor |-> flipEventMap(g.excludesTo)]]

InitBuild ==
    /\ graph \in RawGraphs
    /\ marking = [executed |-> {}, included |-> Events, pending |-> {}]
    /\ call = NoCall

GraphToGraphPP ==
    LET r == graphToGraphPP(graph)
    IN /\ call.op = "none"
       /\ call' = [op |-> "graphToGraphPP", threw |-> r.threw, res |-> r.graph]
       /\ UNCHANGED <<graph, marking>>

NextBuild == GraphToGraphPP

SpecBuild == InitBuild /\ [][NextBuild]_vars

\* a relation of g refers to an event that is no member of events
RefersToMissingEvent(g) ==
    \E kind \in RelKinds, k \in Events : ~ (g[kind][k] \subseteq Events)

\* ---- C23: graph construction (graphToGraphPP) detects a graph in which a
\* relation references an event that is not a member of events, and refuses
\* to proceed instead of returning an optimised graph.
C23_MissingEventRefused ==
    (call.op = "graphToGraphPP" /\ RefersToMissingEvent(graph)) => call.threw

\* what is returned instead: an optimised graph in which the missing event
\* is a key of includesFor or excludesFor, or a member of conditions
C23_MissingEventInResult ==
    (call.op = "graphToGraphPP" /\ ~ call.threw) =>
        /\ call.res.conditions = UNION {graph.conditionsFor[k] : k \in Events}
        /\ \A k \in Events :
               /\ graph.includesTo[k] \subseteq DOMAIN call.res.includesFor
               /\ graph.excludesTo[k] \subseteq DOMAIN call.res.excludesFor

\* ---- The markings that runs reach from the markings of M by executing
\* enabled events of the set allowed, computed without the oracle.
RECURSIVE RunsFrom(_, _, _)
RunsFrom(g, M, allowed) ==
    LET N == M \cup UNION {{execute(e, g, m) : e \in {x \in allowed : EnabledBySpec(x, g, m)}} :
                              m \in M}
    IN IF N = M THEN M ELSE RunsFrom(g, N, allowed)

\* the events a run may use when e is queried: e itself, and every event
\* whose label is not in context
AllowedFor(g, e, context) == {x \in Events : x = e \/ g.labelMap[x] \notin context}

\* some run of allowed events executes e
CanRunTo(g, m, e, context) ==
    \E n \in RunsFrom(g, {m}, AllowedFor(g, e, context)) : EnabledBySpec(e, g, n)

\* ---- C24: the reachability oracle never falsely prunes an event: if
\* canBeExecuted(e) returns false in marking M with context C, then there is
\* no sequence of executions of enabled events starting from M, using no
\* event other than e whose label is in C, in which e is executed.
C24_NeverFalselyPrunes ==
    (call.op = "canBeExecuted" /\ ~ call.res) =>
        ~ CanRunTo(graph, call.pre, call.event, call.context)

\* the oracle answers false on an included event that no milestone blocks:
\* one of its conditions can neither be executed nor excluded
C24_Witness ==
    /\ call.op = "canBeExecuted" /\ ~ call.res
    /\ call.context = {}
    /\ call.event \in call.pre.included
    /\ CondBlockers(call.event, graph, call.pre) # {}
    /\ MistBlockers(call.event, graph, call.pre) = {}

\* the oracle answers false because the only event that lifts the block
\* carries a label of the context
C24_WitnessContext ==
    /\ call.op = "canBeExecuted" /\ ~ call.res
    /\ call.context # {}
    /\ canBeExecuted(call.event, graph, call.pre, {})

\* ---- C25: with an empty remaining trace and empty context: if
\* canBeExecutedOrExcluded(p) returns false for some p in pending \cap
\* included in marking M, then no accepting marking is reachable from M by
\* any sequence of executions of enabled events.
C25_FalseMeansNoAcceptingReachable ==
    (/\ call.op = "canBeExecutedOrExcluded" /\ ~ call.res
     /\ call.context = {}
     /\ call.event \in call.pre.pending \cap call.pre.included) =>
        \A n \in RunsFrom(graph, {call.pre}, Events) : n.pending \cap n.included # {}

\* the oracle answers false on a pending included event while other events
\* are enabled, so that runs from the marking exist
C25_Witness ==
    /\ call.op = "canBeExecutedOrExcluded" /\ ~ call.res
    /\ call.context = {}
    /\ call.event \in call.pre.pending \cap call.pre.included
    /\ Cardinality(RunsFrom(graph, {call.pre}, Events)) > 1

\* ---- C26: in both oracle entry points, canBeExecuted(e) and
\* canBeExecutedOrExcluded(e), the context restriction applies only to events
\* other than the queried one: whenever the queried event e is enabled in
\* the current marking the oracle returns true, also when labelMap[e] is in
\* context.
C26_EnabledQueryIsTrue ==
    (/\ call.op \in {"canBeExecuted", "canBeExecutedOrExcluded"}
     /\ EnabledBySpec(call.event, graph, call.pre)) => call.res

\* the part that holds: canBeExecuted exempts the queried event
C26_CanBeExecutedExempts ==
    (call.op = "canBeExecuted" /\ EnabledBySpec(call.event, graph, call.pre)) => call.res

\* canBeExecutedOrExcluded has no exemption: with the label of the queried
\* event in context it is true only if the event can be excluded
C26_OrExcludedNotExempt ==
    (/\ call.op = "canBeExecutedOrExcluded"
     /\ graph.labelMap[call.event] \in call.context) =>
        (call.res <=> canBeExcludedRecur(call.event,
                          [excl |-> {call.event}, exec |-> {}, incl |-> {}],
                          graph, call.pre, call.context, NoEvent))

\* ---- C28: every call of canBeExecuted and canBeExecutedOrExcluded
\* terminates on any finite graph, including graphs whose condition,
\* milestone, include and exclude relations contain cycles: every recursive
\* call adds an event not yet present to one of the in-progress sets excl,
\* exec or incl (so no chain of calls is longer than 3 * |events| + 1).
C28_EveryCallAddsAnEvent ==
    /\ [][(call.op = "oracleFrame" /\ call'.op = "oracleFrame") =>
            LET old == call.cycleSets
                new == call'.cycleSets
            IN /\ old.excl \subseteq new.excl
               /\ old.exec \subseteq new.exec
               /\ old.incl \subseteq new.incl
               /\ Cardinality(new.excl) + Cardinality(new.exec) + Cardinality(new.incl)
                     = Cardinality(old.excl) + Cardinality(old.exec) + Cardinality(old.incl) + 1
               /\ new.excl \cup new.exec \cup new.incl \subseteq Events]_vars
    /\ [](call.op = "oracleFrame" => call.depth <= 3 * NEvents + 1)

\* a chain of three invocations in a graph whose relations form a cycle
\* through the queried event, ended by the test of the in-progress sets
C28_Witness ==
    /\ call.op = "oracleFrame"
    /\ call.depth >= 3
    /\ \E b \in CondBlockers(call.event, graph, marking) \cup MistBlockers(call.event, graph, marking) :
          b \in call.cycleSets.exec
    /\ OracleCalls(Frame(call.fn, call.event, call.cycleSets),
                   graph, marking, call.context, call.exempt) = {}
    /\ ~ isEnabled(call.event, graph, marking)

\* ---- C27: for every graph, trace, context and finite non-negative cost
\* function, align with pruning = true returns the same cost as align with
\* pruning = false: the pruning step, which runs only while maxCost is
\* infinity, changes the work done and never the result.
C27_PruningKeepsCost ==
    call.op = "alignBoth" =>
        /\ call.on.cost = call.off.cost
        /\ call.on.threw = call.off.threw

\* the pruning step abandons the first call of the search, in a marking with
\* enabled events that the search without pruning goes on to model-skip
C27_Witness ==
    /\ call.op = "alignBoth"
    /\ Pruned(call.trace, graph, call.pre,
              [costFun |-> call.costFun, toDepth |-> Infinity, pruning |-> TRUE,
               context |-> call.context],
              [maxCost |-> Infinity])
    /\ getEnabled(graph, call.pre) # {}
    /\ call.on.cost = Infinity

\* the same with the empty context, where the oracle alone decides
C27_WitnessEmptyContext ==
    C27_Witness /\ call.context = {} /\ Len(call.trace) > 0

\* the last n tokens of a trace
Suffix(trace, n) == SubSeq(trace, Len(trace) - n + 1, Len(trace))

C30_CacheNeverIncreases ==
    call.op = "alignSearch" =>
        LET log == call.st.log
            env == [costFun |-> call.costFun, toDepth |-> call.toDepth, pruning |-> FALSE,
                    context |-> {}]
        IN /\ \A i \in 1..Len(log) : log[i].prev = Undefined \/ log[i].cost < log[i].prev
           /\ \A i \in 1..Len(log) :
                 log[i].search = 1 =>
                    /\ Visited(call.st, log[i].n, log[i].key) <= log[i].cost
                    /\ \A curCost \in {Visited(call.st, log[i].n, log[i].key), log[i].cost + 1} :
                          alignTraceLabel(Suffix(call.trace, log[i].n), graph, log[i].m,
                                          curCost, 0, call.st, env)
                             = NoAlignment(call.st, log[i].m)

\* a search that lowered a cached value, and in which a state was entered
\* at a cost below maxCost
C30_Witness ==
    /\ call.op = "alignSearch"
    /\ \E i \in 1..Len(call.st.log) :
          /\ call.st.log[i].search = 1
          /\ call.st.log[i].prev # Undefined
          /\ call.st.log[i].cost < call.st.log[i].prev
    /\ \E i \in 1..Len(call.st.log) :
          /\ call.st.log[i].search = 1
          /\ call.st.log[i].cost + 1 < call.st.maxCost

\* ------------------------------------------ stateToStr on marking objects
\* A marking as an object: its three properties in the order in which they
\* were created (the order `for ... in` visits them) and each Set as the
\* sequence of its members in insertion order.  Identifiers are strings, and
\* some hold "," or ";".
MaxKeySet == 2

KeyIds ==
    {EventName(1), EventName(2),
     EventName(1) \o <<CommaCode>> \o EventName(2),
     <<SemicolonCode>>}

KeySets ==
    {s \in SeqsUpTo(KeyIds, MaxKeySet) : \A i, j \in 1..Len(s) : i < j => s[i] # s[j]}

KeyOrders ==
    {<<"executed", "included", "pending">>, <<"included", "executed", "pending">>}

KeyObjects == [order : KeyOrders, executed : KeySets, included : KeySets, pending : KeySets]

\* copyMarking: a new object whose properties are created in the order
\* executed, included, pending; new Set(set) keeps the insertion order.
copyMarkingObject(obj) ==
    [order |-> <<"executed", "included", "pending">>,
     executed |-> obj.executed, included |-> obj.included, pending |-> obj.pending]

\* Array.prototype.sort() without a comparator, as an insertion sort.
RECURSIVE SortInsert(_, _)
SortInsert(x, sorted) ==
    IF Len(sorted) = 0 THEN <<x>>
    ELSE IF LexLess(x, Head(sorted)) THEN <<x>> \o sorted
    ELSE <<Head(sorted)>> \o SortInsert(x, Tail(sorted))

RECURSIVE SortArray(_)
SortArray(arr) ==
    IF Len(arr) = 0 THEN <<>>
    ELSE SortInsert(Head(arr), SortArray(Tail(arr)))

RECURSIVE stateToStrLoop(_, _, _)
stateToStrLoop(obj, i, retval) ==
    IF i > Len(obj.order) THEN retval
    ELSE stateToStrLoop(obj, i + 1,
            retval \o Join(SortArray(obj[obj.order[i]])) \o <<SemicolonCode>>)

stateToStrObject(obj) == stateToStrLoop(obj, 1, <<>>)

\* One marking object; it may be copied once, and its key is taken.
InitKey ==
    /\ graph = GraphOf({}, [e \in Events |-> "a"], [e \in Events |-> "r1"])
    /\ marking = [executed |-> {}, included |-> Events, pending |-> {}]
    /\ \E obj \in KeyObjects :
          call = [op |-> "stateToStr", pc |-> "object", obj |-> obj, copied |-> FALSE,
                  key |-> <<>>]

CopyMarking ==
    /\ call.pc = "object"
    /\ ~call.copied
    /\ call' = [call EXCEPT !.obj = copyMarkingObject(call.obj), !.copied = TRUE]
    /\ UNCHANGED <<graph, marking>>

StateToStr ==
    /\ call.pc = "object"
    /\ call' = [call EXCEPT !.pc = "key", !.key = stateToStrObject(call.obj)]
    /\ UNCHANGED <<graph, marking>>

NextKey == CopyMarking \/ StateToStr

SpecKey == InitKey /\ [][NextKey]_vars

\* ------------------------------------------------------------ C31
Members(s) == {s[i] : i \in 1..Len(s)}

SameMarking(x, y) ==
    /\ Members(x.executed) = Members(y.executed)
    /\ Members(x.included) = Members(y.included)
    /\ Members(x.pending) = Members(y.pending)

\* the key of every marking object, computed once
KeyOf == [y \in KeyObjects |-> stateToStrObject(y)]

\* ---- C31: stateToStr maps two markings to the same key iff their executed
\* sets, their included sets and their pending sets are pairwise equal,
\* whatever the insertion order of the sets, whatever the property order of
\* the marking objects, and also when identifiers hold "," or ";".
C31_SameKeyIffSameMarking ==
    (call.op = "stateToStr" /\ call.pc = "key") =>
        \A y \in KeyObjects : (KeyOf[y] = call.key) <=> SameMarking(call.obj, y)

PlainId(id) == \A i \in 1..Len(id) : id[i] \notin {CommaCode, SemicolonCode}

PlainObject(x) ==
    \A id \in Members(x.executed) \cup Members(x.included) \cup Members(x.pending) :
        PlainId(id)

\* what does hold: among objects made by copyMarking whose identifiers hold
\* neither "," nor ";", the key is the same iff the three sets are the same,
\* whatever the insertion order of the sets
C31_SameKeyIffSameMarkingWhenPlainCopies ==
    (call.op = "stateToStr" /\ call.pc = "key" /\ call.copied /\ PlainObject(call.obj)) =>
        \A y \in KeyObjects :
            PlainObject(y) =>
                ((KeyOf[copyMarkingObject(y)] = call.key) <=> SameMarking(call.obj, y))

\* a copied object with two members in one set, and another insertion order
\* of that set in the family
C31_PlainCopyReached ==
    /\ call.op = "stateToStr" /\ call.pc = "key" /\ call.copied /\ PlainObject(call.obj)
    /\ Len(call.obj.executed) = 2
    /\ Len(call.obj.pending) = 1
    /\ LexLess(call.obj.executed[2], call.obj.executed[1])

\* two different markings under one key: executed {"A,B"} and executed
\* {"A", "B"} with the same included and pending sets
C31_CommaCollision ==
    /\ call.op = "stateToStr" /\ call.pc = "key"
    /\ call.obj.executed = <<EventName(1) \o <<CommaCode>> \o EventName(2)>>
    /\ KeyOf[[call.obj EXCEPT !.executed = <<EventName(1), EventName(2)>>]] = call.key

\* two different markings under one key: the identifier ";" in executed
\* or in included, the other sets empty
C31_SemicolonCollision ==
    /\ call.op = "stateToStr" /\ call.pc = "key"
    /\ call.obj.order = <<"executed", "included", "pending">>
    /\ call.obj.executed = <<<<SemicolonCode>>>>
    /\ call.obj.included = <<>>
    /\ KeyOf[[call.obj EXCEPT !.executed = <<>>, !.included = <<<<SemicolonCode>>>>]] = call.key

\* one marking under two keys: the same sets in objects of different
\* property order
C31_PropertyOrderChangesKey ==
    /\ call.op = "stateToStr" /\ call.pc = "key"
    /\ \E y \in KeyObjects :
          /\ SameMarking(call.obj, y)
          /\ PlainObject(y)
          /\ KeyOf[y] # call.key

\* ---- the run quantifyViolations selects: at every trace element the first
\* candidate, in the iteration order of labelMapInv, whose best continuation
\* has strictly fewer violations than those before it; that is the least
\* resolution, in the lexicographic order of the event sequences, among the
\* resolutions with the minimum of violations
ResolutionBefore(a, b) ==
    \E k \in DOMAIN a : a[k] < b[k] /\ \A j \in 1..(k - 1) : a[j] = b[j]

BestResolutions(g, m, trace) ==
    {ch \in Resolutions(g, trace) :
        RunViolations(g, m, trace, ch) = MinViolations(g, m, trace)}

SelectedResolution(g, m, trace) ==
    LET B == BestResolutions(g, m, trace)
    IN CHOOSE ch \in B : \A other \in B \ {ch} : ResolutionBefore(ch, other)

TimesFired(ch, e) == Cardinality({k \in DOMAIN ch : ch[k] = e})

ActivationKinds == {"conditionsFor", "responseTo", "excludesTo", "milestonesFor"}

QuantifyReturnedFinite ==
    /\ call.op = "quantifyViolations"
    /\ ~ call.res.threw
    /\ call.res.totalViolations < Infinity

\* ---- C32: in a result of quantifyViolations with finite totalViolations,
\* for each relation kind R of conditionsFor, responseTo, excludesTo and
\* milestonesFor and all events e, t: activations.R[e][t] is the number of
\* times e is fired in the selected resolution of the trace if t is in R[e],
\* and 0 otherwise.
C32_ActivationsCountFirings ==
    QuantifyReturnedFinite =>
        LET ch == SelectedResolution(graph, call.pre, call.trace)
        IN \A R \in ActivationKinds : \A e, t \in Events :
              call.res.activations[R][e][t] =
                  IF t \in graph[R][e] THEN TimesFired(ch, e) ELSE 0

\* a trace of two elements with two candidates each, for which the second
\* candidate is selected twice: a cell of its row is 2, and the row of the
\* first candidate, which has a relation too, is 0
C32_Witness ==
    /\ QuantifyReturnedFinite
    /\ Len(call.trace) = 2
    /\ SelectedResolution(graph, call.pre, call.trace) = <<2, 2>>
    /\ \A k \in 1..2 : Matches(graph, call.trace[k], 1)
    /\ \E R \in ActivationKinds, t \in Events :
          /\ t \in graph[R][2]
          /\ call.res.activations[R][2][t] = 2
    /\ \E R \in ActivationKinds, t \in Events :
          /\ t \in graph[R][1]
          /\ call.res.activations[R][1][t] = 0

\* ---- C33: at the end of the trace quantifyViolations counts exactly one
\* response violation responseTo[o][e] for every e that is pending and
\* included and every o with e in responseTo[o] that was fired at or after
\* the last firing of e in the selected run (any fired o when e was never
\* fired), and records no other response violation; an event that is
\* pending and included without such an o contributes no violation.
OpenResponse(g, m, trace, ch, o, e) ==
    LET n == Len(trace)
        mEnd == MarkingBefore(g, m, trace, ch, n + 1)
    IN /\ e \in mEnd.pending \cap mEnd.included
       /\ e \in g.responseTo[o]
       /\ \E j \in SinceExecuted(ch, e, n)..n : ch[j] = o

C33_ResponseViolationsAtEnd ==
    QuantifyReturnedFinite =>
        LET ch == SelectedResolution(graph, call.pre, call.trace)
        IN \A o, e \in Events :
              call.res.violations.responseTo[o][e] =
                  IF OpenResponse(graph, call.pre, call.trace, ch, o, e) THEN 1 ELSE 0

\* e = 1 is fired and then o = 2, whose response makes 1 pending: the one
\* violation of the run is responseTo[2][1]
C33_Witness ==
    /\ QuantifyReturnedFinite
    /\ SelectedResolution(graph, call.pre, call.trace) = <<1, 2>>
    /\ 1 \in graph.responseTo[2]
    /\ call.res.violations.responseTo[2][1] = 1
    /\ call.res.totalViolations = 1

\* o = 2 is fired before the last firing of e = 1 and 1 is pending and
\* included from the start to the end: no violation is counted for it
C33_WitnessFiredBefore ==
    /\ QuantifyReturnedFinite
    /\ SelectedResolution(graph, call.pre, call.trace) = <<2, 1>>
    /\ 1 \in graph.responseTo[2]
    /\ 1 \in graph.responseTo[1]
    /\ 1 \in call.pre.pending \cap call.pre.included
    /\ call.res.violations.responseTo[2][1] = 0
    /\ call.res.violations.responseTo[1][1] = 1

\* an event that is pending and included at the end with no violation at
\* all: nothing that responds to it was fired
C33_WitnessPendingNoViolation ==
    /\ QuantifyReturnedFinite
    /\ Len(call.trace) = 2
    /\ LET ch == SelectedResolution(graph, call.pre, call.trace)
           mEnd == MarkingBefore(graph, call.pre, call.trace, ch, 3)
       IN /\ 2 \in mEnd.pending \cap mEnd.included
          /\ ch = <<1, 1>>
          /\ 2 \in graph.responseTo[2]
    /\ call.res.totalViolations = 0

\* ---- the sum of the cells of the four violation matrices
RECURSIVE SumOver(_, _)
SumOver(S, f) ==
    IF S = {} THEN 0
    ELSE LET x == CHOOSE y \in S : TRUE
         IN f[x] + SumOver(S \ {x}, f)

SumCells(rel) ==
    SumOver(DOMAIN rel, [e \in DOMAIN rel |-> SumOver(DOMAIN rel[e], rel[e])])

SumViolations(v) ==
    SumCells(v.conditionsFor) + SumCells(v.milestonesFor)
        + SumCells(v.excludesTo) + SumCells(v.responseTo)

\* ---- C34: whenever quantifyViolations returns a finite totalViolations,
\* that number is the sum of all cells of the four returned violation
\* matrices conditionsFor, milestonesFor, excludesTo and responseTo.
C34_TotalIsSumOfCells ==
    QuantifyReturnedFinite =>
        call.res.totalViolations = SumViolations(call.res.violations)

\* a condition violation counted twice in one cell and a response violation
\* at the end of the trace
C34_Witness ==
    /\ QuantifyReturnedFinite
    /\ call.res.totalViolations = 3
    /\ \E e, t \in Events : call.res.violations.conditionsFor[e][t] = 2
    /\ SumCells(call.res.violations.responseTo) = 1

\* ---- C35: for a role-trace whose activities are all labels of the graph,
\* quantifyViolations returns totalViolations = Infinity together with
\* empty violation and activation matrices iff some trace element has no
\* event whose label is its activity and whose role is its role; in every
\* other case totalViolations is a finite non-negative integer.
AllKnown(g, trace) == \A k \in 1..Len(trace) : KnownAt(g, trace, k)

SomeUnmatched(g, trace) ==
    \E k \in 1..Len(trace) : \A e \in Events : ~ Matches(g, trace[k], e)

C35_InfinityIffUnmatched ==
    (call.op = "quantifyViolations" /\ AllKnown(graph, call.trace)) =>
        /\ ~ call.res.threw
        /\ IF SomeUnmatched(graph, call.trace)
           THEN /\ call.res.totalViolations = Infinity
                /\ call.res.violations = EmptyRelationViolations
                /\ call.res.activations = EmptyRelationViolations
           ELSE /\ call.res.totalViolations \in Nat
                /\ call.res.totalViolations < Infinity

\* the head of the trace has a candidate whose firing violates a condition,
\* the second element has the label of an event but not its role
C35_Witness ==
    /\ call.op = "quantifyViolations"
    /\ AllKnown(graph, call.trace)
    /\ Len(call.trace) = 2
    /\ \E e \in Events :
          /\ Matches(graph, call.trace[1], e)
          /\ conditionViolators(e, graph, call.pre) # {}
    /\ \A e \in Events : ~ Matches(graph, call.trace[2], e)
    /\ call.res.totalViolations = Infinity
    /\ call.res.violations = EmptyRelationViolations

\* the other case: every element has a candidate and violations are counted
C35_WitnessFinite ==
    /\ call.op = "quantifyViolations"
    /\ Len(call.trace) = 2
    /\ ~ SomeUnmatched(graph, call.trace)
    /\ call.res.totalViolations = 2

\* ------------------------------------- quantifyRec, one candidate at a time
\* A path of the recursion of quantifyRec: every action is one iteration of
\* the loop of lines 148-225 down to its recursive call, for one element of
\* the trace and one of its candidates, or the end of the trace (lines
\* 98-130).  call.trace is the part of the trace passed so far; call.event,
\* call.pre, call.cond, call.mile, call.excl and call.count describe the last
\* iteration: the candidate, graph.marking before it, the events its three
\* violation loops counted, and localViolationCount.
InitPath ==
    /\ graph \in ConfGraphs
    /\ marking \in {m \in Markings : m.executed \subseteq conditions(graph)}
    /\ call = [op |-> "quantifyRec", trace |-> <<>>,
               exSinceIn |-> emptyEventMap, exSinceEx |-> emptyEventMap,
               event |-> NoEvent, pre |-> marking,
               cond |-> {}, mile |-> {}, excl |-> {}, count |-> 0, total |-> 0]

PathOpen == call.op \in {"quantifyRec", "candidate"} /\ Len(call.trace) < MaxTraceLen

\* lines 149-217 for the candidate event of the head
QuantifyCandidate(head, event) ==
    /\ PathOpen
    /\ head.activity \in labels(graph)
    /\ \E i \in 1..Len(labelMapInv(graph, head.activity)) :
          labelMapInv(graph, head.activity)[i] = event
    /\ head.role = graph.roleMap[event]
    /\ LET cv == conditionViolators(event, graph, marking)
           mv == milestoneViolators(event, graph, marking)
           xv == excludeViolators(event, graph, marking, call.exSinceIn)
           in1 == [o \in Events |-> IF o \in graph.includesTo[event] THEN {}
                                    ELSE call.exSinceIn[o]]
           ex1 == [o \in Events |-> call.exSinceEx[o] \cup {event}]
       IN /\ call' = [call EXCEPT
                        !.op = "candidate",
                        !.trace = Append(@, head),
                        !.exSinceIn = [o \in Events |-> in1[o] \cup {event}],
                        !.exSinceEx = [ex1 EXCEPT ![event] = {event}],
                        !.event = event,
                        !.pre = marking,
                        !.cond = cv, !.mile = mv, !.excl = xv,
                        !.count = Cardinality(cv) + Cardinality(mv) + Cardinality(xv)]
          /\ marking' = executeS(event, graph, marking)
    /\ UNCHANGED graph

\* the head has the label of an event, but no event of that label has its
\* role: the loop body never runs and Infinity is returned (lines 134, 229)
QuantifyNoCandidate(head) ==
    /\ PathOpen
    /\ head.activity \in labels(graph)
    /\ \A e \in Events : ~ (graph.labelMap[e] = head.activity /\ graph.roleMap[e] = head.role)
    /\ call' = [call EXCEPT !.op = "returned", !.trace = Append(@, head),
                            !.total = Infinity]
    /\ UNCHANGED <<graph, marking>>

\* the head has an activity that is no label: line 148 throws
QuantifyUnknown(head) ==
    /\ PathOpen
    /\ head.activity \notin labels(graph)
    /\ call' = [call EXCEPT !.op = "threw", !.trace = Append(@, head)]
    /\ UNCHANGED <<graph, marking>>

\* the trace is at its end: lines 98-130
QuantifyEnd ==
    /\ call.op \in {"quantifyRec", "candidate"}
    /\ call' = [call EXCEPT !.op = "returned",
                            !.total = quantifyEnd(graph, marking, call.exSinceEx).totalViolations]
    /\ UNCHANGED <<graph, marking>>

NextPath ==
    \/ \E head \in TraceElems, event \in Events : QuantifyCandidate(head, event)
    \/ \E head \in TraceElems : QuantifyNoCandidate(head)
    \/ \E head \in TraceElems : QuantifyUnknown(head)
    \/ QuantifyEnd

SpecPath == InitPath /\ [][NextPath]_vars

\* ---- C36: quantifyViolations executes every candidate event whether or
\* not it is enabled, and at each step the number of condition plus
\* milestone violations it records for a candidate e is zero iff every c in
\* conditionsFor[e] is not included or executed and every m in
\* milestonesFor[e] is not included or not pending; so for an included
\* candidate the step records no violation iff isEnabled(e, g) holds in the
\* marking before the step.
C36_NoViolationIffEnabled ==
    call.op = "candidate" =>
        LET e == call.event
            pre == call.pre
        IN /\ marking = executeS(e, graph, pre)
           /\ (Cardinality(call.cond) + Cardinality(call.mile) = 0) <=>
                 /\ \A c \in graph.conditionsFor[e] :
                       c \notin pre.included \/ c \in pre.executed
                 /\ \A ms \in graph.milestonesFor[e] :
                       ms \notin pre.included \/ ms \notin pre.pending
           /\ e \in pre.included => ((call.count = 0) <=> isEnabled(e, graph, pre))

\* an included candidate that is not enabled, because its milestone is
\* pending, is executed at the second step: one violation is recorded and
\* the marking changes
C36_Witness ==
    /\ call.op = "candidate"
    /\ Len(call.trace) = 2
    /\ call.event \in call.pre.included
    /\ ~ isEnabled(call.event, graph, call.pre)
    /\ call.cond = {} /\ Cardinality(call.mile) = 1
    /\ call.count = 1
    /\ marking # call.pre

\* an included and enabled candidate: nothing recorded although one of its
\* conditions is not executed, since that condition is not included
C36_WitnessEnabled ==
    /\ call.op = "candidate"
    /\ call.event \in call.pre.included
    /\ isEnabled(call.event, graph, call.pre)
    /\ call.count = 0
    /\ \E c \in graph.conditionsFor[call.event] :
          c \notin call.pre.executed /\ c \notin call.pre.included

\* a candidate that is not included is executed too; its exclusion is
\* counted against the event that excluded it
C36_WitnessExcluded ==
    /\ call.op = "candidate"
    /\ call.event \notin call.pre.included
    /\ Cardinality(call.excl) = 1
    /\ call.cond = {} /\ call.mile = {}
    /\ marking # call.pre

====
